---------------------------- MODULE Spec2Model ----------------------------
(***************************************************************************)
(* Data-fetch and caching layer of the AkuGuard Telegram bot.              *)
(*                                                                         *)
(*   src/bot.py    SimpleCache (response cache, rate limiter, backoff),    *)
(*                 normalize_symbol, the three financial adapters and      *)
(*                 get_stock_data                                          *)
(*   src/cache.py  CacheEntry and IntelligentCache                         *)
(*                                                                         *)
(* Time is counted in whole seconds.  A symbol typed by a user is a        *)
(* sequence of one-character strings, so that upper() and strip() are      *)
(* computed character by character; Join turns it into a string, which is  *)
(* what the dictionaries of the program are keyed by.                      *)
(***************************************************************************)
EXTENDS Integers, Sequences, FiniteSets, TLC

VARIABLES
    now,                 \* time.time() / datetime.now(), in seconds
    icache,              \* IntelligentCache.cache: entries in insertion order
    max_size,            \* IntelligentCache.max_size
    evictions,           \* IntelligentCache.stats["evictions"]
    cache,               \* SimpleCache.cache: key -> <<value, timestamp>>
    last_request_time,   \* SimpleCache.last_request_time: api_name -> time
    rate_limit_backoff,  \* SimpleCache.rate_limit_backoff: api_name -> time
    CONFIG,              \* which API keys the environment supplies
    threads,             \* threading.Thread: where each worker is in its call
    ret                  \* the last call: its arguments, what it returned, what it did

vars == <<now, icache, max_size, evictions, cache, last_request_time, rate_limit_backoff,
          CONFIG, threads, ret>>

NoCall == [op |-> "none"]

\* The empty Python dict, as a function with an empty domain.
EmptyDict == [k \in {} |-> 0]

\* the worker threads started by WebhookHandler.do_POST, one per update
Threads == {"t1", "t2"}

\* a worker that is not inside a call of the SimpleCache object
Idle == [pc |-> "idle", arg |-> "", t0 |-> 0, wake |-> 0, entry |-> <<>>]

(***************************************************************************)
(* Strings                                                                 *)
(***************************************************************************)
LowerLetters ==
    <<"a", "b", "c", "d", "e", "f", "g", "h", "i", "j", "k", "l", "m",
      "n", "o", "p", "q", "r", "s", "t", "u", "v", "w", "x", "y", "z">>

UpperLetters ==
    <<"A", "B", "C", "D", "E", "F", "G", "H", "I", "J", "K", "L", "M",
      "N", "O", "P", "Q", "R", "S", "T", "U", "V", "W", "X", "Y", "Z">>

\* the characters str.strip() removes
Whitespace == {" ", "\t", "\n"}

UpperChar(c) ==
    IF \E i \in DOMAIN LowerLetters : LowerLetters[i] = c
    THEN UpperLetters[CHOOSE i \in DOMAIN LowerLetters : LowerLetters[i] = c]
    ELSE c

LowerChar(c) ==
    IF \E i \in DOMAIN UpperLetters : UpperLetters[i] = c
    THEN LowerLetters[CHOOSE i \in DOMAIN UpperLetters : UpperLetters[i] = c]
    ELSE c

\* str.upper() and str.lower()
StrUpper(s) == [i \in DOMAIN s |-> UpperChar(s[i])]
StrLower(s) == [i \in DOMAIN s |-> LowerChar(s[i])]

\* str.strip(): drop the leading and the trailing whitespace
StrStrip(s) ==
    LET keep == {i \in DOMAIN s : s[i] \notin Whitespace}
    IN  IF keep = {} THEN <<>>
        ELSE LET lo == CHOOSE i \in keep : \A j \in keep : i <= j
                 hi == CHOOSE i \in keep : \A j \in keep : i >= j
             IN  SubSeq(s, lo, hi)

RECURSIVE Join(_)
Join(s) == IF s = <<>> THEN "" ELSE Head(s) \o Join(Tail(s))

(***************************************************************************)
(* normalize_symbol (src/bot.py)                                           *)
(***************************************************************************)
name_to_symbol ==
    ("APPLE" :> "AAPL") @@ ("TESLA" :> "TSLA") @@ ("MICROSOFT" :> "MSFT") @@
    ("GOOGLE" :> "GOOGL") @@ ("ALPHABET" :> "GOOGL") @@ ("AMAZON" :> "AMZN") @@
    ("FACEBOOK" :> "META") @@ ("META" :> "META") @@ ("NVIDIA" :> "NVDA") @@
    ("NETFLIX" :> "NFLX") @@ ("BITCOIN" :> "BTC") @@ ("ETHEREUM" :> "ETH") @@
    ("CARDANO" :> "ADA") @@ ("DOGECOIN" :> "DOGE") @@ ("SOLANA" :> "SOL") @@
    ("COCA" :> "KO") @@ ("COCACOLA" :> "KO") @@ ("MCDONALD" :> "MCD") @@
    ("MCDONALDS" :> "MCD") @@ ("DISNEY" :> "DIS") @@ ("WALMART" :> "WMT") @@
    ("VISA" :> "V") @@ ("MASTERCARD" :> "MA") @@ ("PAYPAL" :> "PYPL") @@
    ("INTEL" :> "INTC") @@ ("AMD" :> "AMD") @@ ("ORACLE" :> "ORCL") @@
    ("UBER" :> "UBER") @@ ("AIRBNB" :> "ABNB") @@ ("ZOOM" :> "ZM")

crypto_mapping ==
    ("BTC" :> "BTC-USD") @@ ("ETH" :> "ETH-USD") @@ ("ADA" :> "ADA-USD") @@
    ("DOT" :> "DOT-USD") @@ ("LINK" :> "LINK-USD") @@ ("LTC" :> "LTC-USD") @@
    ("XRP" :> "XRP-USD") @@ ("DOGE" :> "DOGE-USD") @@ ("MATIC" :> "MATIC-USD") @@
    ("SOL" :> "SOL-USD")

\* dict.get(key, default)
DictGet(d, k, default) == IF k \in DOMAIN d THEN d[k] ELSE default

\* a plausible slip: the name table is consulted before the input is trimmed
normalize_symbol_unstripped(symbol) ==
    LET s0 == Join(StrUpper(symbol))
        s1 == IF s0 \in DOMAIN name_to_symbol THEN name_to_symbol[s0]
              ELSE Join(StrStrip(StrUpper(symbol)))
    IN  DictGet(crypto_mapping, s1, s1)

normalize_symbol(symbol) ==
    LET s0 == Join(StrStrip(StrUpper(symbol)))
        s1 == IF s0 \in DOMAIN name_to_symbol THEN name_to_symbol[s0] ELSE s0
    IN  DictGet(crypto_mapping, s1, s1)

(***************************************************************************)
(* The inputs normalize_symbol is applied to: every name of the table,     *)
(* every crypto ticker and some other words, in three casings and with     *)
(* four kinds of surrounding whitespace.                                   *)
(***************************************************************************)
Words == {
    <<"A", "P", "P", "L", "E">>, <<"T", "E", "S", "L", "A">>,
    <<"M", "I", "C", "R", "O", "S", "O", "F", "T">>, <<"G", "O", "O", "G", "L", "E">>,
    <<"A", "L", "P", "H", "A", "B", "E", "T">>, <<"A", "M", "A", "Z", "O", "N">>,
    <<"F", "A", "C", "E", "B", "O", "O", "K">>, <<"M", "E", "T", "A">>,
    <<"N", "V", "I", "D", "I", "A">>, <<"N", "E", "T", "F", "L", "I", "X">>,
    <<"B", "I", "T", "C", "O", "I", "N">>, <<"E", "T", "H", "E", "R", "E", "U", "M">>,
    <<"C", "A", "R", "D", "A", "N", "O">>, <<"D", "O", "G", "E", "C", "O", "I", "N">>,
    <<"S", "O", "L", "A", "N", "A">>, <<"C", "O", "C", "A">>,
    <<"C", "O", "C", "A", "C", "O", "L", "A">>, <<"M", "C", "D", "O", "N", "A", "L", "D">>,
    <<"M", "C", "D", "O", "N", "A", "L", "D", "S">>, <<"D", "I", "S", "N", "E", "Y">>,
    <<"W", "A", "L", "M", "A", "R", "T">>, <<"V", "I", "S", "A">>,
    <<"M", "A", "S", "T", "E", "R", "C", "A", "R", "D">>, <<"P", "A", "Y", "P", "A", "L">>,
    <<"I", "N", "T", "E", "L">>, <<"A", "M", "D">>, <<"O", "R", "A", "C", "L", "E">>,
    <<"U", "B", "E", "R">>, <<"A", "I", "R", "B", "N", "B">>, <<"Z", "O", "O", "M">>,
    <<"B", "T", "C">>, <<"E", "T", "H">>, <<"A", "D", "A">>, <<"D", "O", "T">>,
    <<"L", "I", "N", "K">>, <<"L", "T", "C">>, <<"X", "R", "P">>, <<"D", "O", "G", "E">>,
    <<"M", "A", "T", "I", "C">>, <<"S", "O", "L">>, <<"A", "A", "P", "L">>,
    <<"T", "S", "L", "A">>, <<"X", "Y", "Z">>, <<"B", "T", "C", "-", "U", "S", "D">>,
    <<"K", "O">>, <<"C", "O", "C", "A", " ", "C", "O", "L", "A">> }

Casings == {"upper", "lower", "title"}

Paddings == {"none", "left", "right", "both"}

Cased(w, casing) ==
    CASE casing = "upper" -> w
      [] casing = "lower" -> StrLower(w)
      [] casing = "title" -> [i \in DOMAIN w |-> IF i = 1 THEN w[i] ELSE LowerChar(w[i])]

Padded(w, padding) ==
    CASE padding = "none"  -> w
      [] padding = "left"  -> <<" ">> \o w
      [] padding = "right" -> w \o <<" ">>
      [] padding = "both"  -> <<"\t", " ">> \o w \o <<" ", "\n">>

\* One call of normalize_symbol on the text drawn by InitNorm.  word is the
\* upper-case, trimmed spelling the typed text was derived from; it is kept
\* with the call for the record only.
Normalize ==
    /\ ret.op = "typed"
    /\ ret' = [op |-> "normalize_symbol", word |-> ret.word, symbol |-> ret.symbol,
               result |-> normalize_symbol(ret.symbol)]
    /\ UNCHANGED <<threads, now, icache, max_size, evictions, cache, last_request_time,
                   rate_limit_backoff, CONFIG>>

\* None: what os.environ.get gives for a variable that is not set
None == "None"

NoConfig == [TWELVE_API_KEY |-> None, ALPHA_VANTAGE_API_KEY |-> None,
             FMP_API_KEY |-> None]

InitNorm ==
    /\ now = 0
    /\ icache = <<>>
    /\ max_size = 1000
    /\ evictions = 0
    /\ cache = EmptyDict
    /\ last_request_time = EmptyDict
    /\ rate_limit_backoff = EmptyDict
    /\ threads = [t \in Threads |-> Idle]
    /\ CONFIG = NoConfig
    /\ \E word \in Words, casing \in Casings, padding \in Paddings :
           ret = [op |-> "typed", word |-> Join(word),
                  symbol |-> Padded(Cased(word, casing), padding)]

NextNorm == Normalize

SpecNorm == InitNorm /\ [][NextNorm]_vars

(***************************************************************************)
(* C5: normalize_symbol maps every name of the table, typed in any case    *)
(* and with surrounding whitespace, to its ticker, with the market suffix  *)
(* when the ticker is a crypto ticker (TESLA -> TSLA, BITCOIN -> BTC-USD); *)
(* a text that is neither a name of the table nor a crypto ticker comes    *)
(* back upper-cased and trimmed, otherwise unchanged.                      *)
(***************************************************************************)
CryptoTickers == {"BTC", "ETH", "ADA", "DOT", "LINK", "LTC", "XRP", "DOGE", "MATIC", "SOL"}

WithSuffix(ticker) == IF ticker \in CryptoTickers THEN ticker \o "-USD" ELSE ticker

NormalizeTotal ==
    ret.op = "normalize_symbol" =>
        /\ ret.word \in DOMAIN name_to_symbol =>
               ret.result = WithSuffix(name_to_symbol[ret.word])
        /\ ret.word = "TESLA" => ret.result = "TSLA"
        /\ ret.word = "APPLE" => ret.result = "AAPL"
        /\ ret.word = "BITCOIN" => ret.result = "BTC-USD"
        /\ (ret.word \notin DOMAIN name_to_symbol /\ ret.word \notin CryptoTickers) =>
               ret.result = ret.word

NormalizeTotalWitness ==
    /\ ret.op = "normalize_symbol"
    /\ ret.word = "BITCOIN"
    /\ ret.symbol = <<"\t", " ", "B", "i", "t", "c", "o", "i", "n", " ", "\n">>
    /\ ret.result = "BTC-USD"

NormalizeUnknownWitness ==
    /\ ret.op = "normalize_symbol"
    /\ ret.symbol = <<" ", "x", "y", "z">>
    /\ ret.result = "XYZ"

(***************************************************************************)
(* CacheEntry and IntelligentCache (src/cache.py)                          *)
(*                                                                         *)
(* The dict self.cache is a sequence of entries in insertion order, which  *)
(* is the order a Python dict iterates in and the order sorted() keeps     *)
(* among entries of equal rank.  Each entry carries its key.               *)
(***************************************************************************)
\* hashlib.md5(text).hexdigest(): a digest, different for different texts
md5(text) == <<"md5", text>>

\* f"{namespace}:{args}:{sorted(kwargs.items())}" for args = (query,) and no kwargs
_generate_key(namespace, query) == md5(namespace \o ":('" \o query \o "',):[]")

CacheEntry(key, data, timestamp, ttl, last_access) ==
    [key |-> key, data |-> data, timestamp |-> timestamp, ttl |-> ttl,
     access_count |-> 0, last_access |-> last_access]

is_expired(entry, t) == t - entry.timestamp > entry.ttl

\* a touch that counts the access and keeps the time of the last one
touch_count(entry, t) ==
    [entry EXCEPT !.access_count = @ + 1]

touch(entry, t) ==
    [entry EXCEPT !.access_count = @ + 1, !.last_access = t]

\* the position of key in the dict, 0 when it is absent
Position(c, key) ==
    IF \E i \in DOMAIN c : c[i].key = key
    THEN CHOOSE i \in DOMAIN c : c[i].key = key
    ELSE 0

\* c without the entries at the positions in gone
Without(c, gone) ==
    LET F[i \in 0..Len(c)] ==
            IF i = 0 THEN <<>>
            ELSE IF i \in gone THEN F[i - 1] ELSE Append(F[i - 1], c[i])
    IN  F[Len(c)]

KeysAt(c, positions) == {c[i].key : i \in positions}

\* the sort key of _cleanup: (access_count, last_access), compared as tuples
RankBefore(a, b) ==
    \/ a.access_count < b.access_count
    \/ a.access_count = b.access_count /\ a.last_access < b.last_access

RankEqual(a, b) ==
    a.access_count = b.access_count /\ a.last_access = b.last_access

\* how many entries sorted() places before the one at position i (it is stable)
SortedIndex(c, i) ==
    Cardinality({j \in DOMAIN c :
                    \/ RankBefore(c[j], c[i])
                    \/ RankEqual(c[j], c[i]) /\ j < i})

\* the key of the entry accessed (by get or set) later than every other entry
\* of c, if there is one
MostRecent(c) ==
    {c[i].key : i \in {i \in DOMAIN c :
                          \A j \in DOMAIN c \ {i} : c[j].last_access < c[i].last_access}}

\* a cleanup pass that purges the expired entries and evicts nothing
_cleanup_purge(c, t, max) ==
    LET expired_keys == {i \in DOMAIN c : is_expired(c[i], t)}
    IN  [cache |-> Without(c, expired_keys),
         expired |-> KeysAt(c, expired_keys),
         evicted |-> {},
         newest |-> MostRecent(Without(c, expired_keys))]

\* _cleanup: what is left, the keys purged as expired, the keys evicted for
\* capacity, and the most recently accessed key among the entries ranked.  len > max_size * 0.8 and
\* int(len * 0.2) are computed in integers.
_cleanup(c, t, max) ==
    LET expired_keys == {i \in DOMAIN c : is_expired(c[i], t)}
        live == Without(c, expired_keys)
        to_remove == IF Len(live) * 10 > max * 8 THEN (Len(live) * 2) \div 10 ELSE 0
        lowest == {i \in DOMAIN live : SortedIndex(live, i) < to_remove}
    IN  [cache |-> Without(live, lowest),
         expired |-> KeysAt(c, expired_keys),
         evicted |-> KeysAt(live, lowest),
         newest |-> MostRecent(live)]

NoCleanup(c) == [cache |-> c, expired |-> {}, evicted |-> {}, newest |-> {}]

\* a plausible slip: set() keeps the entry a key already has
StoreIfAbsent(c, entry) ==
    IF Position(c, entry.key) = 0 THEN Append(c, entry) ELSE c

\* self.cache[key] = entry: an existing key keeps its place in the dict
Store(c, entry) ==
    IF Position(c, entry.key) = 0 THEN Append(c, entry)
    ELSE [c EXCEPT ![Position(c, entry.key)] = entry]

\* what a get remembers of the call it follows
Summary(call) ==
    IF call.op = "set"
    THEN [op |-> "set", key |-> call.key, data |-> call.data, ttl |-> call.ttl,
          time |-> call.time, cleanup |-> call.cleanup, old |-> call.old]
    ELSE [op |-> call.op]

\* IntelligentCache.get
IGet(namespace, query) ==
    LET key == _generate_key(namespace, query)
        pos == Position(icache, key)
        hit == pos # 0 /\ ~is_expired(icache[pos], now)
    IN  /\ icache' = IF pos = 0 THEN icache
                     ELSE IF is_expired(icache[pos], now) THEN Without(icache, {pos})
                     ELSE [icache EXCEPT ![pos] = touch(@, now)]
        /\ ret' = [op |-> "get", key |-> key, time |-> now, after |-> Summary(ret),
                   found |-> IF pos = 0 THEN <<>> ELSE <<icache[pos]>>,
                   result |-> IF hit THEN icache[pos].data ELSE None]
        /\ UNCHANGED <<threads, now, max_size, evictions, cache, last_request_time, rate_limit_backoff,
                       CONFIG>>

\* IntelligentCache.set
ISet(namespace, data, ttl, query) ==
    LET key == _generate_key(namespace, query)
        full == Len(icache) >= max_size
        cleaned == IF full THEN _cleanup(icache, now, max_size) ELSE NoCleanup(icache)
    IN  /\ icache' = Store(cleaned.cache, CacheEntry(key, data, now, ttl, now))
        /\ evictions' = evictions + Cardinality(cleaned.evicted)
        /\ ret' = [op |-> "set", key |-> key, data |-> data, ttl |-> ttl,
                   time |-> now, cleanup |-> full,
                   old |-> IF Position(cleaned.cache, key) = 0 THEN None
                           ELSE cleaned.cache[Position(cleaned.cache, key)].data,
                   expired |-> cleaned.expired, evicted |-> cleaned.evicted,
                   newest |-> cleaned.newest]
        /\ UNCHANGED <<threads, now, max_size, cache, last_request_time, rate_limit_backoff,
                       CONFIG>>

\* hexdigest()[:8], the first eight characters of a digest: those that MD5
\* gives for the texts of the namespaces and keys used here, and for any
\* other text a prefix of its own
hexdigest8(digest) ==
    CASE digest = md5("stock:") -> "504392fe"
      [] digest = md5("weather:") -> "cb7339c7"
      [] digest = md5("stock:('AAPL',):[]") -> "d82afd6e"
      [] digest = md5("weather:('AAPL',):[]") -> "d52c9a8e"
      [] OTHER -> digest[2]

\* IntelligentCache.clear
IClear(namespace) ==
    /\ icache' =
          IF namespace = None THEN <<>>
          ELSE Without(icache,
                       {i \in DOMAIN icache :
                           hexdigest8(icache[i].key) =
                               hexdigest8(md5(namespace \o ":"))})
    /\ ret' = [op |-> "clear", namespace |-> namespace, time |-> now]
    /\ UNCHANGED <<threads, now, max_size, evictions, cache, last_request_time,
                   rate_limit_backoff, CONFIG>>

MaxTime == 2
MaxSizes == {1, 2}
MaxAccess == 1
MaxEvictions == 1
Namespaces == {"stock", "weather"}
Queries == {"AAPL"}
Values == {"v1", "v2"}
TTLs == {1}

\* the access counter of an entry is capped: a get that would count past
\* MaxAccess is not taken
CanGet(namespace, query) ==
    LET pos == Position(icache, _generate_key(namespace, query))
    IN  pos # 0 => icache[pos].access_count < MaxAccess

\* the eviction counter is capped: a set whose cleanup would count past
\* MaxEvictions is not taken
CanSet ==
    Len(icache) >= max_size =>
        evictions + Cardinality(_cleanup(icache, now, max_size).evicted) <= MaxEvictions

\* time passes between two calls
Tick ==
    /\ now' = now + 1
    /\ UNCHANGED <<threads, icache, max_size, evictions, cache, last_request_time, rate_limit_backoff,
                   CONFIG, ret>>

InitCache ==
    /\ now = 0
    /\ icache = <<>>
    /\ max_size \in MaxSizes
    /\ evictions = 0
    /\ cache = EmptyDict
    /\ last_request_time = EmptyDict
    /\ rate_limit_backoff = EmptyDict
    /\ threads = [t \in Threads |-> Idle]
    /\ CONFIG = NoConfig
    /\ ret = NoCall

NextCache ==
    \/ \E namespace \in Namespaces, query \in Queries :
          CanGet(namespace, query) /\ IGet(namespace, query)
    \/ \E namespace \in Namespaces, query \in Queries, data \in Values, ttl \in TTLs :
          CanSet /\ ISet(namespace, data, ttl, query)
    \/ \E namespace \in Namespaces \cup {None} : IClear(namespace)
    \/ now < MaxTime /\ Tick

SpecCache == InitCache /\ [][NextCache]_vars

(***************************************************************************)
(* C6: a set immediately followed by a get of the same (namespace, query)  *)
(* returns the value just stored, for any ttl > 0, also when the set ran a *)
(* cleanup pass and when the key already held another value.               *)
(***************************************************************************)
CacheRoundTrip ==
    (/\ ret.op = "get"
     /\ ret.after.op = "set"
     /\ ret.after.key = ret.key
     /\ ret.after.time = ret.time
     /\ ret.after.ttl > 0)
    => ret.result = ret.after.data

CacheRoundTripWitness ==
    /\ ret.op = "get"
    /\ ret.after.op = "set"
    /\ ret.after.key = ret.key
    /\ ret.after.time = ret.time
    /\ ret.after.cleanup
    /\ ret.after.old \notin {None, ret.after.data}
    /\ ret.result = ret.after.data

(***************************************************************************)
(* C7: a get performed once the ttl of the entry has elapsed, the ttl      *)
(* instant included (now - timestamp >= ttl), returns None and removes the *)
(* entry.                                                                  *)
(***************************************************************************)
CacheExpiry ==
    (/\ ret.op = "get"
     /\ ret.found # <<>>
     /\ ret.time - ret.found[1].timestamp >= ret.found[1].ttl)
    => /\ ret.result = None
       /\ Position(icache, ret.key) = 0

(***************************************************************************)
(* C8: IntelligentCache never holds more than max_size entries after a set *)
(* completes, for every max_size >= 1.                                     *)
(***************************************************************************)
CacheSizeBound == Len(icache) <= max_size

\* C23: every get that returns a value adds exactly 1 to the access_count of
\* the entry it read and sets its last_access to the time of the call, and
\* keeps every other entry as it was; a get that misses, because the key is
\* absent or its entry has expired, changes the access_count and last_access
\* of no entry that remains in the store.
TouchOnHit ==
    [][(ret' # ret /\ ret'.op = "get") =>
          LET pos == Position(icache, ret'.key)
          IN  IF ret'.result # None
              THEN /\ pos # 0
                   /\ Len(icache') = Len(icache)
                   /\ icache'[pos].key = ret'.key
                   /\ icache'[pos].access_count = icache[pos].access_count + 1
                   /\ icache'[pos].last_access = now
                   /\ \A i \in DOMAIN icache \ {pos} : icache'[i] = icache[i]
              ELSE /\ pos = 0 \/ is_expired(icache[pos], now)
                   /\ \A i \in DOMAIN icache' :
                         \E j \in DOMAIN icache : icache[j] = icache'[i]]_vars

\* a get at a later time than the last access of the entry it returns, with
\* another entry in the store
TouchOnHitWitness ==
    /\ ret.op = "get"
    /\ ret.result # None
    /\ ret.found[1].last_access < ret.time
    /\ Len(icache) = 2
    /\ icache[Position(icache, ret.key)].last_access = ret.time


(***************************************************************************)
(* Evictions.  A cleanup pass removes something for capacity only when it  *)
(* ranks at least five entries, so evictions are studied on a cache of     *)
(* capacity EvictMaxSize that already holds EvictMaxSize - 1 entries, all  *)
(* stored at time 0 and not read yet: the state after as many set calls on *)
(* an empty cache.                                                         *)
(***************************************************************************)
EvictMaxSize == 5
MaxEvictTime == 1

EvictNames == <<"AAPL", "TSLA", "MSFT", "NVDA", "AMZN">>

EvictQueries == {EvictNames[i] : i \in DOMAIN EvictNames}

InitEvict ==
    /\ now = 0
    /\ max_size = EvictMaxSize
    /\ icache = [i \in 1..(EvictMaxSize - 1) |->
                    CacheEntry(_generate_key("stock", EvictNames[i]), "v1", 0, 9, 0)]
    /\ evictions = 0
    /\ cache = EmptyDict
    /\ last_request_time = EmptyDict
    /\ rate_limit_backoff = EmptyDict
    /\ threads = [t \in Threads |-> Idle]
    /\ CONFIG = NoConfig
    /\ ret = NoCall

NextEvict ==
    \/ \E query \in EvictQueries : CanGet("stock", query) /\ IGet("stock", query)
    \/ \E query \in EvictQueries : CanSet /\ ISet("stock", "v1", 9, query)
    \/ now < MaxEvictTime /\ Tick

SpecEvict == InitEvict /\ [][NextEvict]_vars

(***************************************************************************)
(* C9: a cleanup pass never evicts, for capacity, the entry that was       *)
(* accessed (by get or set) most recently among the entries it ranks.      *)
(***************************************************************************)
EvictionSparesMostRecent ==
    ret.op = "set" => ret.evicted \cap ret.newest = {}

(***************************************************************************)
(* Cleanup passes that both purge and evict: a cache of capacity           *)
(* PurgeMaxSize that holds PurgeMaxSize - 1 entries stored at time 0, the  *)
(* first of them with a ttl of 0, which is expired from time 1 on.         *)
(***************************************************************************)
PurgeMaxSize == 6

PurgeNames == <<"AAPL", "TSLA", "MSFT", "NVDA", "AMZN", "META", "GOOG", "NFLX">>

\* the names stored: one that is cached already and two that are new
PurgeQueries ==
    {PurgeNames[2], PurgeNames[PurgeMaxSize], PurgeNames[PurgeMaxSize + 1]}

PurgeReads == {PurgeNames[2], PurgeNames[3]}

InitPurge ==
    /\ now = 0
    /\ max_size = PurgeMaxSize
    /\ icache = [i \in 1..(PurgeMaxSize - 1) |->
                    CacheEntry(_generate_key("stock", PurgeNames[i]), "v1", 0,
                               IF i = 1 THEN 0 ELSE 9, 0)]
    /\ evictions = 0
    /\ cache = EmptyDict
    /\ last_request_time = EmptyDict
    /\ rate_limit_backoff = EmptyDict
    /\ threads = [t \in Threads |-> Idle]
    /\ CONFIG = NoConfig
    /\ ret = NoCall

NextPurge ==
    \/ \E query \in PurgeReads : CanGet("stock", query) /\ IGet("stock", query)
    \/ \E query \in PurgeQueries : CanSet /\ ISet("stock", "v1", 9, query)
    \/ now < MaxEvictTime /\ Tick

SpecPurge == InitPurge /\ [][NextPurge]_vars

\* the positions of the entries of icache that are expired now
ExpiredNow == {i \in DOMAIN icache : is_expired(icache[i], now)}

\* how many entries a cleanup pass made now evicts for capacity
Quota ==
    LET remaining == Len(icache) - Cardinality(ExpiredNow)
    IN  IF remaining * 10 > max_size * 8 THEN (remaining * 2) \div 10 ELSE 0

min_request_interval == 8

NoUpstream == [provider \in {} |-> <<>>]

\* upstream: for each provider, the responses its next requests will get
World(upstream) ==
    [cache |-> cache, last_request_time |-> last_request_time,
     rate_limit_backoff |-> rate_limit_backoff, now |-> now, log |-> <<>>,
     upstream |-> upstream]

\* time.sleep(seconds)
Sleep(w, seconds) == [w EXCEPT !.now = @ + seconds]

\* d[k] = v on a Python dict
DictSet(d, k, v) == [x \in DOMAIN d \cup {k} |-> IF x = k THEN v ELSE d[x]]

\* the algorithm of the specification text: the minimum interval is waited
\* for only when no backoff is active
wait_for_rate_limit_else(w, api_name, late) ==
    LET t0 == w.now
        backoff_active == /\ api_name \in DOMAIN w.rate_limit_backoff
                          /\ t0 < w.rate_limit_backoff[api_name]
        w1 == IF backoff_active
              THEN Sleep(w, w.rate_limit_backoff[api_name] - t0)
              ELSE IF /\ api_name \in DOMAIN w.last_request_time
                      /\ t0 - w.last_request_time[api_name] < min_request_interval
                   THEN Sleep(w, min_request_interval
                                    - (t0 - w.last_request_time[api_name]))
                   ELSE w
        w2 == Sleep(w1, late)
    IN  [w2 EXCEPT !.last_request_time = DictSet(@, api_name, w2.now),
                   !.log = Append(@, <<"wait", api_name, t0, w2.now>>)]

\* the rate limiter that ignores the backoff window
wait_for_rate_limit_unbacked(w, api_name, late) ==
    LET t0 == w.now
        too_soon == /\ api_name \in DOMAIN w.last_request_time
                    /\ t0 - w.last_request_time[api_name] < min_request_interval
        w2 == IF too_soon
              THEN Sleep(w, min_request_interval
                               - (t0 - w.last_request_time[api_name]))
              ELSE w
        w3 == Sleep(w2, late)
    IN  [w3 EXCEPT !.last_request_time = DictSet(@, api_name, w3.now),
                   !.log = Append(@, <<"wait", api_name, t0, w3.now>>)]

\* SimpleCache.wait_for_rate_limit.  now is read once, on entry, and used by
\* both tests; late is the time the call takes beyond its sleeps.
wait_for_rate_limit(w, api_name, late) ==
    LET t0 == w.now
        backoff_active == /\ api_name \in DOMAIN w.rate_limit_backoff
                          /\ t0 < w.rate_limit_backoff[api_name]
        w1 == IF backoff_active
              THEN Sleep(w, w.rate_limit_backoff[api_name] - t0)
              ELSE w
        too_soon == /\ api_name \in DOMAIN w.last_request_time
                    /\ t0 - w.last_request_time[api_name] < min_request_interval
        w2 == IF too_soon
              THEN Sleep(w1, min_request_interval
                                - (t0 - w.last_request_time[api_name]))
              ELSE w1
        w3 == Sleep(w2, late)
    IN  [w3 EXCEPT !.last_request_time = DictSet(@, api_name, w3.now),
                   !.log = Append(@, <<"wait", api_name, t0, w3.now>>)]

\* a backoff that grows: the seconds are added to a window that is still open
trigger_backoff_growing(w, api_name, backoff_seconds) ==
    LET pending == /\ api_name \in DOMAIN w.rate_limit_backoff
                   /\ w.rate_limit_backoff[api_name] > w.now
        until == (IF pending THEN w.rate_limit_backoff[api_name] ELSE w.now)
                     + backoff_seconds
    IN  [w EXCEPT !.rate_limit_backoff = DictSet(@, api_name, until),
                  !.log = Append(@, <<"backoff", api_name, until>>)]

\* SimpleCache.trigger_backoff
trigger_backoff(w, api_name, backoff_seconds) ==
    [w EXCEPT !.rate_limit_backoff = DictSet(@, api_name, w.now + backoff_seconds),
              !.log = Append(@, <<"backoff", api_name, w.now + backoff_seconds>>)]

\* the fields of the SimpleCache object and the clock after a call
Commit(w) ==
    /\ cache' = w.cache
    /\ last_request_time' = w.last_request_time
    /\ rate_limit_backoff' = w.rate_limit_backoff
    /\ now' = w.now

\* one call of cache.wait_for_rate_limit(api_name)
WaitForRateLimit(api_name, late) ==
    LET w == wait_for_rate_limit(World(NoUpstream), api_name, late)
    IN  /\ Commit(w)
        /\ ret' = [op |-> "wait_for_rate_limit", api_name |-> api_name,
                   start |-> now, returned |-> w.now, late |-> late,
                   last |-> IF api_name \in DOMAIN last_request_time
                            THEN <<last_request_time[api_name]>> ELSE <<>>,
                   backoff |-> IF api_name \in DOMAIN rate_limit_backoff
                               THEN <<rate_limit_backoff[api_name]>> ELSE <<>>,
                   recorded |-> w.last_request_time[api_name]]
        /\ UNCHANGED <<threads, icache, max_size, evictions, CONFIG>>

\* one call of cache.trigger_backoff(api_name, backoff_seconds)
TriggerBackoff(api_name, backoff_seconds) ==
    LET w == trigger_backoff(World(NoUpstream), api_name, backoff_seconds)
    IN  /\ Commit(w)
        /\ ret' = [op |-> "trigger_backoff", api_name |-> api_name,
                   backoff_seconds |-> backoff_seconds, start |-> now,
                   shortens |-> /\ api_name \in DOMAIN rate_limit_backoff
                                /\ rate_limit_backoff[api_name]
                                       > now + backoff_seconds]
        /\ UNCHANGED <<threads, icache, max_size, evictions, CONFIG>>

MaxRateTime == 10

ApiNames == {"twelvedata", "alphavantage"}
BackoffSeconds == {3, 60}
Lates == {0, 1}

InitRate ==
    /\ now = 0
    /\ icache = <<>>
    /\ max_size = 1000
    /\ evictions = 0
    /\ cache = EmptyDict
    /\ last_request_time = EmptyDict
    /\ rate_limit_backoff = EmptyDict
    /\ threads = [t \in Threads |-> Idle]
    /\ CONFIG = NoConfig
    /\ ret = NoCall

NextRate ==
    \/ \E api_name \in ApiNames, late \in Lates :
          now < MaxRateTime /\ WaitForRateLimit(api_name, late)
    \/ \E api_name \in ApiNames, backoff_seconds \in BackoffSeconds :
          now < MaxRateTime /\ TriggerBackoff(api_name, backoff_seconds)
    \/ now < MaxRateTime /\ Tick

SpecRate == InitRate /\ [][NextRate]_vars

(***************************************************************************)
(* C10: a wait_for_rate_limit(p) called less than min_request_interval     *)
(* after last_request_time[p] blocks for at least the remainder, so that   *)
(* two consecutive recorded request times of a provider are at least       *)
(* min_request_interval apart.                                             *)
(***************************************************************************)
MinimumInterval ==
    (ret.op = "wait_for_rate_limit" /\ ret.last # <<>>) =>
        /\ ret.recorded - ret.last[1] >= min_request_interval
        /\ ret.start - ret.last[1] < min_request_interval =>
               ret.returned - ret.start
                   >= min_request_interval - (ret.start - ret.last[1])

\* a call made 3 s after the last request, during a backoff window: it waits
\* for the window and then for the 5 s that were missing on entry
MinimumIntervalWitness ==
    /\ ret.op = "wait_for_rate_limit"
    /\ ret.last # <<>>
    /\ ret.start - ret.last[1] = 3
    /\ ret.backoff # <<>>
    /\ ret.backoff[1] = ret.start + 2
    /\ ret.returned = ret.start + 2 + 5
    /\ ret.recorded = ret.returned


(***************************************************************************)
(* C11: trigger_backoff(p, s) sets the backoff instant of p to now + s,    *)
(* and a wait_for_rate_limit(p) that starts before the backoff instant of  *)
(* p does not return before it, however long ago the last request to p     *)
(* was made.                                                               *)
(***************************************************************************)
BackoffBlocks ==
    /\ ret.op = "trigger_backoff" =>
           rate_limit_backoff[ret.api_name] = ret.start + ret.backoff_seconds
    /\ (/\ ret.op = "wait_for_rate_limit"
        /\ ret.backoff # <<>>
        /\ ret.start < ret.backoff[1]) =>
           /\ ret.returned >= ret.backoff[1]
           /\ ret.recorded >= ret.backoff[1]

\* the last request was made min_request_interval ago, the window ends in 3 s
BackoffBlocksWitness ==
    /\ ret.op = "wait_for_rate_limit"
    /\ ret.last # <<>>
    /\ ret.start - ret.last[1] >= min_request_interval
    /\ ret.backoff # <<>>
    /\ ret.backoff[1] = ret.start + 3
    /\ ret.returned = ret.backoff[1]

BackoffWaitOnly ==
    (/\ ret.op = "wait_for_rate_limit"
     /\ ret.backoff # <<>>
     /\ ret.start < ret.backoff[1]) =>
        /\ ret.returned = ret.backoff[1] + ret.late
        /\ ret.recorded = ret.returned

(***************************************************************************)
(* SimpleCache (src/bot.py): the response cache.                           *)
(***************************************************************************)
\* cache = SimpleCache(cache_duration_minutes=360), in seconds
cache_duration == 360 * 60

\* del d[k] on a Python dict
DictDel(d, k) == [x \in DOMAIN d \ {k} |-> d[x]]

\* a get that finds nothing
SimpleCache_get_absent(w, key) == [w |-> w, value |-> <<>>]

\* SimpleCache.get: value is <<data>>, or <<>> for None; an entry as old as
\* cache_duration is deleted
SimpleCache_get(w, key) ==
    IF key \in DOMAIN w.cache
    THEN IF w.now - w.cache[key].timestamp < cache_duration
         THEN [w |-> w, value |-> <<w.cache[key].data>>]
         ELSE [w |-> [w EXCEPT !.cache = DictDel(@, key)], value |-> <<>>]
    ELSE [w |-> w, value |-> <<>>]

\* SimpleCache.set
SimpleCache_set(w, key, value) ==
    [w EXCEPT !.cache = DictSet(@, key, [data |-> value, timestamp |-> w.now])]

\* "if cached_data:" - neither None nor an empty dict
Truthy(value) == value # <<>> /\ DOMAIN value[1] # {}

(***************************************************************************)
(* The upstream services.  A response is what requests.get produces:       *)
(* an exception (exc), or a status and a body.  kind tells how the body    *)
(* decodes ("invalid": not JSON, "dict", "list": a list whose first        *)
(* element is data); bad are the fields whose text is not a number; says   *)
(* are the phrases, in lower case, that the body's text contains.          *)
(***************************************************************************)
Response(status, kind, data, bad, says) ==
    [exc |-> FALSE, status |-> status, kind |-> kind, data |-> data,
     bad |-> bad, says |-> says]

\* requests.get raises (timeout, connection error)
Timeout ==
    [exc |-> TRUE, status |-> 0, kind |-> "invalid", data |-> EmptyDict,
     bad |-> {}, says |-> {}]

\* requests.get: the provider's next response; the request is logged
requests_get(w, provider, request) ==
    LET queue == IF provider \in DOMAIN w.upstream THEN w.upstream[provider]
                 ELSE <<>>
        response == IF queue = <<>> THEN Timeout ELSE Head(queue)
    IN  [w |-> [w EXCEPT !.log = Append(@, <<"http", provider, request,
                                            [exc |-> response.exc,
                                             status |-> response.status]>>),
                         !.upstream = IF queue = <<>> THEN @
                                      ELSE DictSet(@, provider, Tail(queue))],
         response |-> response]

\* the one value of a set {F(x) : x \in {e}}: F of the value of e, with e
\* evaluated once
Only(S) == CHOOSE value \in S : TRUE

\* how a step of a function ends: with a value, or with an exception whose
\* text contains the phrases error_msg
Return(w, value) == [w |-> w, raised |-> FALSE, result |-> value]
Raise(w, error_msg) == [w |-> w, raised |-> TRUE, result |-> error_msg]

\* the return of a function, logged
Returned(name, outcome) ==
    IF outcome.raised THEN outcome
    ELSE [outcome EXCEPT !.w.log = Append(@, <<"return", name, outcome.result>>)]

Error(text) == [error |-> text]

\* float(d[k]) / int(d[k]) for every k of keys succeeds
Numbers(response, d, keys) == keys \subseteq DOMAIN d /\ keys \cap response.bad = {}

\* str.endswith and the text before the suffix, for the texts
\* normalize_symbol returns
Stems == DOMAIN crypto_mapping

endswith(text, suffix) == \E stem \in Stems : text = stem \o suffix

removesuffix(text, suffix) == CHOOSE stem \in Stems : text = stem \o suffix

\* max() of a non-empty set of dates
Max(S) == CHOOSE x \in S : \A y \in S : y <= x


(***************************************************************************)
(* get_stock_data_alphavantage (src/bot.py).  Prices are whole numbers;    *)
(* a percentage is rounded down to a whole number.                         *)
(***************************************************************************)
\* the symbols the model asks quotes for, with symbol.upper() and
\* normalize_symbol(symbol) tabulated for them
FetchSymbols == {<<"a", "p", "p", "l", "e">>, <<"b", "t", "c">>}

\* inputs that name one company: normalize_symbol gives AAPL for all of them
AliasSymbols ==
    {<<"a", "p", "p", "l", "e">>, <<"A", "P", "P", "L", "E">>,
     <<"a", "a", "p", "l">>}

upper == [symbol \in FetchSymbols \cup AliasSymbols |-> Join(StrUpper(symbol))]

normalized ==
    [symbol \in FetchSymbols \cup AliasSymbols |-> normalize_symbol(symbol)]

Percent(change, base) == (change * 100) \div base

\* the except clause: the error is classified by the phrases of its text
\* an except clause that caches the error it returns
alphavantage_except_cached(w, error_msg) ==
    Return(SimpleCache_set(w, "stock_av_error", Error("alphavantage: error")),
           Error("alphavantage: error"))

alphavantage_except(w, error_msg) ==
    IF "rate limit" \in error_msg \/ "calls per" \in error_msg
    THEN Return(trigger_backoff(w, "alphavantage", 120),
                Error("alphavantage: rate limit"))
    ELSE IF "not found" \in error_msg \/ "invalid" \in error_msg
    THEN Return(w, Error("alphavantage: symbol not found"))
    ELSE IF "Thank you for using Alpha Vantage" \in error_msg
    THEN Return(w, Error("alphavantage: api key invalid or expired"))
    ELSE Return(w, Error("alphavantage: error"))

\* the quote of a crypto symbol, from a price alone
CryptoQuote(normalized_symbol, crypto_symbol, current_price, volume) ==
    [symbol |-> normalized_symbol,
     name |-> crypto_symbol \o " (Cryptocurrency)",
     current_price |-> current_price, currency |-> "USD",
     daily_change |-> 0, daily_change_percent |-> 0,
     monthly_change_percent |-> 0,
     year_high |-> (current_price * 12) \div 10,
     year_low |-> (current_price * 8) \div 10,
     market_cap |-> 0, sector |-> "Cryptocurrency", industry |-> "N/A",
     volume |-> volume, avg_volume |-> 0]

\* CURRENCY_EXCHANGE_RATE, asked when DIGITAL_CURRENCY_DAILY has no series
alphavantage_exchange_rate(w, normalized_symbol, crypto_symbol) ==
    LET rate == "Realtime Currency Exchange Rate"
    IN  Only({IF got.response.exc \/ got.response.kind = "invalid"
              THEN Raise(got.w, {})
              ELSE IF /\ got.response.kind = "dict"
                      /\ rate \in DOMAIN got.response.data
                      /\ Numbers(got.response, got.response.data[rate],
                                 {"5. Exchange Rate"})
              THEN Return(got.w,
                       CryptoQuote(normalized_symbol, crypto_symbol,
                           got.response.data[rate]["5. Exchange Rate"], 0))
              ELSE Raise(got.w, {}) :
              got \in {requests_get(w, "alphavantage",
                           [function |-> "CURRENCY_EXCHANGE_RATE",
                            symbol |-> crypto_symbol])}})

\* the branch of a symbol that ends in -USD: DIGITAL_CURRENCY_DAILY, then
\* CURRENCY_EXCHANGE_RATE
alphavantage_crypto(w, normalized_symbol) ==
    LET crypto_symbol == removesuffix(normalized_symbol, "-USD")
        series == "Time Series (Digital Currency Daily)"
        Latest(r) == r.data[series][Max(DOMAIN r.data[series])]
    IN  Only({IF got.response.exc THEN Raise(got.w, {})
              ELSE IF got.response.kind = "invalid"
              THEN Raise(got.w, {"invalid"} \cup got.response.says)
              ELSE IF got.response.kind = "list" THEN Raise(got.w, {})
              ELSE IF series \notin DOMAIN got.response.data
              THEN alphavantage_exchange_rate(got.w, normalized_symbol,
                                              crypto_symbol)
              ELSE IF DOMAIN got.response.data[series] = {}
              THEN Raise(got.w, {})
              ELSE IF /\ Numbers(got.response, Latest(got.response), {"4. close"})
                      /\ "5. volume" \notin
                             DOMAIN Latest(got.response) \cap got.response.bad
              THEN Return(got.w,
                       CryptoQuote(normalized_symbol, crypto_symbol,
                           Latest(got.response)["4. close"],
                           DictGet(Latest(got.response), "5. volume", 0)))
              ELSE Raise(got.w, {}) :
              got \in {requests_get(w, "alphavantage",
                           [function |-> "DIGITAL_CURRENCY_DAILY",
                            symbol |-> crypto_symbol])}})

\* the quote computed from a daily series
DailyQuote(w, r, normalized_symbol, time_series) ==
    LET dates == DOMAIN time_series
        latest_date == Max(dates)
        latest_data == time_series[latest_date]
        earlier == time_series[Max(dates \ {latest_date})]
        current_price == latest_data["4. close"]
        open_price == latest_data["1. open"]
        previous_close == IF Cardinality(dates) > 1 THEN earlier["4. close"]
                          ELSE open_price
        daily_change == current_price - previous_close
    IN  IF dates = {} THEN Raise(w, {})
        ELSE IF ~Numbers(r, latest_data,
                         {"4. close", "1. open", "2. high", "3. low", "5. volume"})
        THEN Raise(w, {})
        ELSE IF /\ Cardinality(dates) > 1
                /\ ~Numbers(r, earlier, {"4. close"}) \/ previous_close = 0
        THEN Raise(w, {})
        ELSE Return(w,
                 [symbol |-> normalized_symbol,
                  name |-> normalized_symbol \o " Inc.",
                  current_price |-> current_price, currency |-> "USD",
                  daily_change |-> daily_change,
                  daily_change_percent |->
                      IF Cardinality(dates) > 1 \/ open_price > 0
                      THEN Percent(daily_change, previous_close) ELSE 0,
                  monthly_change_percent |-> 0,
                  year_high |-> latest_data["2. high"],
                  year_low |-> latest_data["3. low"],
                  market_cap |-> 0, sector |-> "N/A", industry |-> "N/A",
                  volume |-> latest_data["5. volume"], avg_volume |-> 0])

\* the TIME_SERIES_DAILY request made when GLOBAL_QUOTE has none of the
\* expected keys
alphavantage_daily(w, normalized_symbol) ==
    LET series == "Time Series (Daily)"
    IN  Only({IF got.response.exc THEN Raise(got.w, {})
              ELSE IF got.response.kind = "invalid"
              THEN Raise(got.w, got.response.says)
              ELSE IF got.response.kind = "list" THEN Raise(got.w, {})
              ELSE IF series \notin DOMAIN got.response.data
              THEN Raise(got.w, {})
              ELSE DailyQuote(got.w, got.response, normalized_symbol,
                              got.response.data[series]) :
              got \in {requests_get(w, "alphavantage",
                           [function |-> "TIME_SERIES_DAILY",
                            symbol |-> normalized_symbol])}})

\* the quote computed from a Global Quote
EquityQuote(w, r, normalized_symbol, quote) ==
    IF DOMAIN quote = {} \/ "05. price" \notin DOMAIN quote
    THEN Raise(w, {})
    ELSE IF ~Numbers(r, quote,
                     {"05. price", "09. change", "10. change percent",
                      "03. high", "04. low", "02. open", "08. previous close",
                      "06. volume"})
    THEN Raise(w, {})
    ELSE Return(w,
             [symbol |-> normalized_symbol,
              name |-> normalized_symbol \o " Inc.",
              current_price |-> quote["05. price"], currency |-> "USD",
              daily_change |-> quote["09. change"],
              daily_change_percent |-> quote["10. change percent"],
              monthly_change_percent |-> 0,
              day_high |-> quote["03. high"], day_low |-> quote["04. low"],
              open_price |-> quote["02. open"],
              previous_close |-> quote["08. previous close"],
              market_cap |-> 0, sector |-> "N/A", industry |-> "N/A",
              volume |-> quote["06. volume"], avg_volume |-> 0])

\* the branch of every other symbol: GLOBAL_QUOTE
alphavantage_equity(w, normalized_symbol) ==
    Only({IF got.response.exc THEN Raise(got.w, {})
          ELSE IF got.response.kind = "invalid"
          THEN Raise(got.w, {"invalid"} \cup got.response.says)
          ELSE IF got.response.kind = "list" THEN Raise(got.w, {})
          ELSE IF "Error Message" \in DOMAIN got.response.data
          THEN Raise(got.w, got.response.says)
          ELSE IF "Note" \in DOMAIN got.response.data
          THEN Raise(got.w, {"rate limit"} \cup got.response.says)
          ELSE IF "Information" \in DOMAIN got.response.data
          THEN Raise(got.w, got.response.says)
          ELSE IF "Global Quote" \in DOMAIN got.response.data
          THEN EquityQuote(got.w, got.response, normalized_symbol,
                                got.response.data["Global Quote"])
          ELSE alphavantage_daily(got.w, normalized_symbol) :
          got \in {requests_get(w, "alphavantage",
                       [function |-> "GLOBAL_QUOTE",
                        symbol |-> normalized_symbol])}})

\* the try block without the test of the API key
alphavantage_try_keyless(w, cache_key, normalized_symbol) ==
    Only({IF fetched.raised THEN fetched
          ELSE Return(SimpleCache_set(fetched.w, cache_key, fetched.result),
                      fetched.result) :
          fetched \in {IF endswith(normalized_symbol, "-USD")
                       THEN alphavantage_crypto(w, normalized_symbol)
                       ELSE alphavantage_equity(w, normalized_symbol)}})

\* the try block: the outcome is a value to return or an exception
alphavantage_try(w, cache_key, normalized_symbol) ==
    IF CONFIG.ALPHA_VANTAGE_API_KEY = None
    THEN Return(w, Error("alphavantage: api key not configured"))
    ELSE Only({IF fetched.raised THEN fetched
               ELSE Return(SimpleCache_set(fetched.w, cache_key, fetched.result),
                           fetched.result) :
               fetched \in {IF endswith(normalized_symbol, "-USD")
                            THEN alphavantage_crypto(w, normalized_symbol)
                            ELSE alphavantage_equity(w, normalized_symbol)}})

\* the function without its except clause
get_stock_data_alphavantage_uncaught(w, symbol) ==
    Only({Returned("get_stock_data_alphavantage", outcome) :
          outcome \in
              {IF Truthy(cached_data.value)
               THEN Return(cached_data.w, cached_data.value[1])
               ELSE alphavantage_try(
                        wait_for_rate_limit(cached_data.w, "alphavantage", 0),
                        "stock_av_" \o upper[symbol], normalized[symbol]) :
               cached_data \in
                   {SimpleCache_get(w, "stock_av_" \o upper[symbol])}}})

get_stock_data_alphavantage(w, symbol) ==
    Only({Returned("get_stock_data_alphavantage", outcome) :
          outcome \in
              {IF Truthy(cached_data.value)
               THEN Return(cached_data.w, cached_data.value[1])
               ELSE Only({IF tried.raised
                          THEN alphavantage_except(tried.w, tried.result)
                          ELSE tried :
                          tried \in {alphavantage_try(
                                         wait_for_rate_limit(cached_data.w,
                                                             "alphavantage", 0),
                                         "stock_av_" \o upper[symbol],
                                         normalized[symbol])}}) :
               cached_data \in
                   {SimpleCache_get(w, "stock_av_" \o upper[symbol])}}})

(***************************************************************************)
(* get_stock_data_twelve and get_stock_data_fmp (src/bot.py).              *)
(***************************************************************************)
\* the symbols both adapters send in their crypto form
CryptoForm == {"BTC", "ETH", "ADA", "DOT", "SOL", "DOGE"}

\* float(d.get(k, default)) / int(d.get(k, default)) succeeds for the keys
Optional(response, d, keys) == (keys \cap DOMAIN d) \cap response.bad = {}

\* the quote computed from the answer of Twelve Data
TwelveQuote(normalized_symbol, data) ==
    LET current_price == IF "close" \in DOMAIN data THEN data["close"]
                         ELSE DictGet(data, "price", 0)
        previous_close == DictGet(data, "previous_close", current_price)
        daily_change == IF previous_close > 0
                        THEN current_price - previous_close ELSE 0
    IN  [symbol |-> normalized_symbol,
         name |-> normalized_symbol \o " Inc.",
         current_price |-> current_price, currency |-> "USD",
         daily_change |-> daily_change,
         daily_change_percent |->
             IF previous_close > 0
             THEN Percent(daily_change, previous_close) ELSE 0,
         monthly_change_percent |-> 0,
         day_high |-> DictGet(data, "high", current_price),
         day_low |-> DictGet(data, "low", current_price),
         open_price |-> DictGet(data, "open", current_price),
         previous_close |-> previous_close,
         market_cap |-> 0, sector |-> "N/A", industry |-> "N/A",
         volume |-> DictGet(data, "volume", 0), avg_volume |-> 0]

\* the try block of get_stock_data_twelve
twelve_try(w, symbol, cache_key, normalized_symbol) ==
    LET api_key == DictGet(CONFIG, "TWELVE_API_KEY", "demo")
        PriceKey(data) == IF "close" \in DOMAIN data THEN "close" ELSE "price"
    IN  Only({IF got.response.exc THEN Raise(got.w, {})
              ELSE IF got.response.status # 200
              THEN get_stock_data_alphavantage(got.w, symbol)
              ELSE IF got.response.kind = "invalid"
              THEN get_stock_data_alphavantage(got.w, symbol)
              ELSE IF /\ got.response.kind = "dict"
                      /\ "message" \in DOMAIN got.response.data
              THEN get_stock_data_alphavantage(got.w, symbol)
              ELSE IF \/ got.response.kind = "list"
                      \/ {"close", "price"} \cap DOMAIN got.response.data = {}
              THEN get_stock_data_alphavantage(got.w, symbol)
              ELSE IF \/ PriceKey(got.response.data) \in got.response.bad
                      \/ ~Optional(got.response, got.response.data,
                                   {"previous_close", "high", "low", "open",
                                    "volume"})
              THEN Raise(got.w, {})
              ELSE Only({Return(SimpleCache_set(got.w, cache_key, stock_data),
                                stock_data) :
                         stock_data \in {TwelveQuote(normalized_symbol,
                                                     got.response.data)}}) :
              got \in {requests_get(w, "twelvedata",
                           [symbol |-> IF normalized_symbol \in CryptoForm
                                       THEN normalized_symbol \o "/USD"
                                       ELSE normalized_symbol,
                            apikey |-> api_key])}})

get_stock_data_twelve(w, symbol) ==
    Only({Returned("get_stock_data_twelve", outcome) :
          outcome \in
              {IF Truthy(cached_data.value)
               THEN Return(cached_data.w, cached_data.value[1])
               ELSE Only({IF tried.raised
                          THEN get_stock_data_alphavantage(tried.w, symbol)
                          ELSE tried :
                          tried \in {twelve_try(
                                         wait_for_rate_limit(cached_data.w,
                                                             "twelvedata", 0),
                                         symbol, "stock_twelve_" \o upper[symbol],
                                         normalized[symbol])}}) :
               cached_data \in
                   {SimpleCache_get(w, "stock_twelve_" \o upper[symbol])}}})

\* the quote computed from the answer of FMP: the v4 form, a dict with the
\* price alone, or the v3 form, the first element of a list
FmpQuote(normalized_symbol, kind, quote) ==
    LET current_price == quote["price"]
    IN  IF kind = "dict"
        THEN [symbol |-> normalized_symbol,
              name |-> normalized_symbol \o " Inc.",
              current_price |-> current_price, currency |-> "USD",
              daily_change |-> 0, daily_change_percent |-> 0,
              monthly_change_percent |-> 0,
              year_high |-> (current_price * 12) \div 10,
              year_low |-> (current_price * 8) \div 10,
              market_cap |-> 0, sector |-> "N/A", industry |-> "N/A",
              volume |-> 0, avg_volume |-> 0]
        ELSE [symbol |-> normalized_symbol,
              name |-> DictGet(quote, "name", normalized_symbol \o " Inc."),
              current_price |-> current_price, currency |-> "USD",
              daily_change |-> DictGet(quote, "change", 0),
              daily_change_percent |-> DictGet(quote, "changesPercentage", 0),
              monthly_change_percent |-> 0,
              year_high |-> DictGet(quote, "yearHigh",
                                    (current_price * 12) \div 10),
              year_low |-> DictGet(quote, "yearLow",
                                   (current_price * 8) \div 10),
              market_cap |-> DictGet(quote, "marketCap", 0),
              sector |-> DictGet(quote, "sector", "N/A"),
              industry |-> DictGet(quote, "industry", "N/A"),
              volume |-> DictGet(quote, "volume", 0),
              avg_volume |-> DictGet(quote, "avgVolume", 0)]

\* the try block of get_stock_data_fmp
fmp_try(w, symbol, cache_key, normalized_symbol) ==
    IF CONFIG.FMP_API_KEY = None THEN get_stock_data_alphavantage(w, symbol)
    ELSE
    Only({IF got.response.exc THEN Raise(got.w, {})
          ELSE IF got.response.status # 200
          THEN get_stock_data_alphavantage(got.w, symbol)
          ELSE IF got.response.kind = "invalid"
          THEN get_stock_data_alphavantage(got.w, symbol)
          ELSE IF "price" \notin DOMAIN got.response.data
          THEN get_stock_data_alphavantage(got.w, symbol)
          ELSE IF \/ "price" \in got.response.bad
                  \/ /\ got.response.kind = "list"
                     /\ ~Optional(got.response, got.response.data,
                                  {"change", "changesPercentage", "yearHigh",
                                   "yearLow", "marketCap", "volume",
                                   "avgVolume"})
          THEN Raise(got.w, {})
          ELSE Only({Return(SimpleCache_set(got.w, cache_key, stock_data),
                            stock_data) :
                     stock_data \in {FmpQuote(normalized_symbol,
                                              got.response.kind,
                                              got.response.data)}}) :
          got \in {requests_get(w, "fmp",
                       [url |-> "/api/v4/price/" \o
                                (IF normalized_symbol \in CryptoForm
                                 THEN normalized_symbol \o "USD"
                                 ELSE normalized_symbol)])}})

get_stock_data_fmp(w, symbol) ==
    Only({Returned("get_stock_data_fmp", outcome) :
          outcome \in
              {IF Truthy(cached_data.value)
               THEN Return(cached_data.w, cached_data.value[1])
               ELSE Only({IF tried.raised
                          THEN get_stock_data_alphavantage(tried.w, symbol)
                          ELSE tried :
                          tried \in {fmp_try(
                                         wait_for_rate_limit(cached_data.w,
                                                             "fmp", 0),
                                         symbol, "stock_fmp_" \o upper[symbol],
                                         normalized[symbol])}}) :
               cached_data \in
                   {SimpleCache_get(w, "stock_fmp_" \o upper[symbol])}}})

(***************************************************************************)
(* get_stock_data (src/bot.py): the provider cascade.  An exception of a   *)
(* function it calls would leave get_stock_data too.                       *)
(***************************************************************************)
\* the end of the branch taken without any key
WithoutKeys(twelve_data) ==
    IF twelve_data.raised THEN twelve_data
    ELSE IF /\ DOMAIN twelve_data.result # {}
            /\ "error" \in DOMAIN twelve_data.result
    THEN Return(twelve_data.w, Error("no financial api configured"))
    ELSE twelve_data

\* the cascade that trusts every quote of the primary provider
get_stock_data_primary(w, symbol) ==
    LET has_twelve_key == CONFIG.TWELVE_API_KEY # None
        has_alpha_key == CONFIG.ALPHA_VANTAGE_API_KEY # None
    IN  Only({Returned("get_stock_data", outcome) :
              outcome \in
                  {IF has_twelve_key
                   THEN get_stock_data_twelve(w, symbol)
                   ELSE IF has_alpha_key
                   THEN get_stock_data_alphavantage(w, symbol)
                   ELSE Only({WithoutKeys(twelve_data) :
                              twelve_data \in
                                  {get_stock_data_twelve(w, symbol)}})}})

get_stock_data(w, symbol) ==
    LET has_twelve_key == CONFIG.TWELVE_API_KEY # None
        has_alpha_key == CONFIG.ALPHA_VANTAGE_API_KEY # None
    IN  Only({Returned("get_stock_data", outcome) :
              outcome \in
                  {IF has_twelve_key
                   THEN Only({IF twelve_data.raised THEN twelve_data
                              ELSE IF /\ DOMAIN twelve_data.result # {}
                                      /\ "error" \notin DOMAIN twelve_data.result
                                      /\ DictGet(twelve_data.result,
                                                 "daily_change", 0) = 0
                                      /\ DictGet(twelve_data.result,
                                                 "volume", 0) = 0
                                      /\ has_alpha_key
                              THEN get_stock_data_alphavantage(twelve_data.w,
                                                               symbol)
                              ELSE twelve_data :
                              twelve_data \in
                                  {get_stock_data_twelve(w, symbol)}})
                   ELSE IF has_alpha_key
                   THEN get_stock_data_alphavantage(w, symbol)
                   ELSE Only({WithoutKeys(twelve_data) :
                              twelve_data \in
                                  {get_stock_data_twelve(w, symbol)}})}})

(***************************************************************************)
(* The fetch layer as a state machine: calls of get_stock_data and of      *)
(* get_stock_data_fmp, with the responses the providers give to the        *)
(* requests of the call, and the passing of time between calls.            *)
(***************************************************************************)
MaxCalls == 2

Configs ==
    {NoConfig,
     [NoConfig EXCEPT !.TWELVE_API_KEY = "k12"],
     [NoConfig EXCEPT !.ALPHA_VANTAGE_API_KEY = "kav"],
     [TWELVE_API_KEY |-> "k12", ALPHA_VANTAGE_API_KEY |-> "kav",
      FMP_API_KEY |-> "kfmp"]}

Ok(data) == Response(200, "dict", data, {}, {})

TwelveResponses ==
    {Timeout,
     Response(429, "dict", [message |-> 0], {}, {}),
     Response(200, "invalid", EmptyDict, {}, {}),
     Ok([message |-> 0]),
     Ok([close |-> 100, previous_close |-> 90, high |-> 110, low |-> 80,
         open |-> 95, volume |-> 5000]),
     Ok([price |-> 100]),
     Ok([close |-> 0, previous_close |-> 0, volume |-> 0]),
     Response(200, "dict", [close |-> 100, volume |-> 0], {"volume"}, {})}

FmpResponses ==
    {Timeout,
     Response(429, "dict", EmptyDict, {}, {}),
     Ok([price |-> 100]),
     Response(200, "list", [price |-> 100, change |-> 5], {"change"}, {})}

GlobalQuote ==
    ("01. symbol" :> 0) @@ ("02. open" :> 95) @@ ("03. high" :> 110)
    @@ ("04. low" :> 80) @@ ("05. price" :> 100) @@ ("06. volume" :> 5000)
    @@ ("08. previous close" :> 90) @@ ("09. change" :> 10)
    @@ ("10. change percent" :> 11)

Day(open, close) ==
    ("1. open" :> open) @@ ("2. high" :> 110) @@ ("3. low" :> 80)
    @@ ("4. close" :> close) @@ ("5. volume" :> 5000)

\* the responses to the requests of one call, in the order of the requests
AlphaResponses ==
    {<<>>,
     <<Response(200, "invalid", EmptyDict, {}, {})>>,
     <<Response(200, "dict", "Error Message" :> 0, {}, {"invalid"})>>,
     <<Ok("Note" :> 0)>>,
     <<Response(200, "dict", "Information" :> 0, {},
                {"Thank you for using Alpha Vantage"})>>,
     <<Ok("Global Quote" :> GlobalQuote)>>,
     <<Ok("Global Quote" :> EmptyDict)>>,
     <<Ok(EmptyDict), Ok("Time Series (Daily)" :> <<Day(90, 95), Day(95, 100)>>)>>,
     <<Ok(EmptyDict), Ok(EmptyDict)>>,
     <<Ok("Time Series (Digital Currency Daily)" :> <<Day(95, 100)>>)>>,
     <<Ok(EmptyDict), Ok("Realtime Currency Exchange Rate" :>
                             ("5. Exchange Rate" :> 100))>>}

\* the record of a call: what it returned and what it did
Call(op, symbol, outcome) ==
    [op |-> op, n |-> ret.n + 1, symbol |-> symbol, start |-> now,
     raised |-> outcome.raised, result |-> outcome.result,
     log |-> outcome.w.log]

\* one call of get_stock_data(symbol)
GetStockData(symbol, twelve, alpha) ==
    \E outcome \in {get_stock_data(
                        World([twelvedata |-> <<twelve>>, alphavantage |-> alpha]),
                        symbol)} :
        /\ Commit(outcome.w)
        /\ ret' = Call("get_stock_data", symbol, outcome)
        /\ UNCHANGED <<threads, icache, max_size, evictions, CONFIG>>

\* one call of get_stock_data_fmp(symbol)
GetStockDataFmp(symbol, fmp, alpha) ==
    \E outcome \in {get_stock_data_fmp(
                        World([fmp |-> <<fmp>>, alphavantage |-> alpha]), symbol)} :
        /\ Commit(outcome.w)
        /\ ret' = Call("get_stock_data_fmp", symbol, outcome)
        /\ UNCHANGED <<threads, icache, max_size, evictions, CONFIG>>

\* the cache duration passes
Later ==
    /\ now' = now + cache_duration
    /\ UNCHANGED <<threads, icache, max_size, evictions, cache, last_request_time,
                   rate_limit_backoff, CONFIG, ret>>

Init ==
    /\ now = 0
    /\ icache = <<>>
    /\ max_size = 1000
    /\ evictions = 0
    /\ cache = EmptyDict
    /\ last_request_time = EmptyDict
    /\ rate_limit_backoff = EmptyDict
    /\ threads = [t \in Threads |-> Idle]
    /\ CONFIG \in Configs
    /\ ret = [op |-> "none", n |-> 0]

Next ==
    \/ \E symbol \in FetchSymbols, twelve \in TwelveResponses,
          alpha \in AlphaResponses :
          ret.n < MaxCalls /\ GetStockData(symbol, twelve, alpha)
    \/ \E symbol \in FetchSymbols, fmp \in FmpResponses,
          alpha \in AlphaResponses :
          ret.n < MaxCalls /\ GetStockDataFmp(symbol, fmp, alpha)
    \/ ret.n > 0 /\ now < cache_duration /\ Later

Spec == Init /\ [][Next]_vars


\* the events of the last call: the returns of a function, the requests sent
ReturnsOf(name) ==
    {i \in DOMAIN ret.log : ret.log[i][1] = "return" /\ ret.log[i][2] = name}

Requests == {i \in DOMAIN ret.log : ret.log[i][1] = "http"}

IsError(value) == "error" \in DOMAIN value

IsQuote(value) == {"symbol", "current_price"} \subseteq DOMAIN value

HasKey(name) == CONFIG[name] # None

(***************************************************************************)
(* C1: with both keys configured, when get_stock_data_twelve returns a     *)
(* quote that is not an error and has daily_change = 0 and volume = 0,     *)
(* get_stock_data returns the value of the call of                         *)
(* get_stock_data_alphavantage it makes after it.                          *)
(***************************************************************************)
IncompleteQuoteFallback ==
    (/\ ret.op = "get_stock_data"
     /\ HasKey("TWELVE_API_KEY") /\ HasKey("ALPHA_VANTAGE_API_KEY")) =>
        \A i \in ReturnsOf("get_stock_data_twelve") :
            (/\ ~IsError(ret.log[i][3])
             /\ ret.log[i][3].daily_change = 0
             /\ ret.log[i][3].volume = 0) =>
                /\ ~ret.raised
                /\ \E j \in ReturnsOf("get_stock_data_alphavantage") :
                       /\ j > i
                       /\ \A k \in ReturnsOf("get_stock_data_alphavantage") :
                              k <= j
                       /\ ret.result = ret.log[j][3]

\* Twelve Data answers with a bare price, Alpha Vantage with a full quote:
\* the caller gets the Alpha Vantage quote
IncompleteQuoteFallbackWitness ==
    /\ ret.op = "get_stock_data"
    /\ HasKey("TWELVE_API_KEY") /\ HasKey("ALPHA_VANTAGE_API_KEY")
    /\ \E i \in ReturnsOf("get_stock_data_twelve") :
           /\ ~IsError(ret.log[i][3])
           /\ ret.log[i][3].daily_change = 0
           /\ ret.log[i][3].volume = 0
           /\ ret.log[i][3].current_price = 100
    /\ IsQuote(ret.result)
    /\ ret.result.daily_change = 10
    /\ ret.result.volume = 5000

(***************************************************************************)
(* C2: get_stock_data returns an error only when no function it consulted  *)
(* in the call returned a quote.                                           *)
(***************************************************************************)
ErrorOnlyAfterAllFailed ==
    (ret.op = "get_stock_data" /\ ~ret.raised /\ IsError(ret.result)) =>
        \A i \in DOMAIN ret.log :
            (ret.log[i][1] = "return" /\ ret.log[i][2] # "get_stock_data") =>
                IsError(ret.log[i][3])

(***************************************************************************)
(* C3: with neither the Twelve Data key nor the Alpha Vantage key,         *)
(* get_stock_data returns the configuration error whenever the Twelve Data *)
(* request fails or get_stock_data_twelve returns an error, and every      *)
(* request of the call goes to Twelve Data.                                *)
(***************************************************************************)
NoKeysConfigurationError ==
    (/\ ret.op = "get_stock_data"
     /\ ~HasKey("TWELVE_API_KEY") /\ ~HasKey("ALPHA_VANTAGE_API_KEY")) =>
        /\ \A i \in ReturnsOf("get_stock_data_twelve") :
               IsError(ret.log[i][3]) =>
                   ret.result = Error("no financial api configured")
        /\ \A i \in Requests :
               /\ ret.log[i][2] = "twelvedata"
               /\ (ret.log[i][4].exc \/ ret.log[i][4].status # 200) =>
                      ret.result = Error("no financial api configured")
        /\ Cardinality(Requests) <= 1

\* Twelve Data answers 429 to the only request of the call
NoKeysConfigurationErrorWitness ==
    /\ ret.op = "get_stock_data"
    /\ ~HasKey("TWELVE_API_KEY") /\ ~HasKey("ALPHA_VANTAGE_API_KEY")
    /\ \E i \in Requests :
           ret.log[i][2] = "twelvedata" /\ ret.log[i][4].status = 429
    /\ \E i \in ReturnsOf("get_stock_data_alphavantage") : IsError(ret.log[i][3])
    /\ ret.result = Error("no financial api configured")

(***************************************************************************)
(* C4: get_stock_data, and with it get_stock_data_twelve and               *)
(* get_stock_data_alphavantage, and get_stock_data_fmp return a quote or   *)
(* an error value whatever the providers answer; no exception leaves them. *)
(***************************************************************************)
NoExceptionEscapes ==
    ret.op \in {"get_stock_data", "get_stock_data_fmp"} =>
        /\ ~ret.raised
        /\ IsError(ret.result) \/ IsQuote(ret.result)
        /\ \A i \in DOMAIN ret.log :
               ret.log[i][1] = "return" =>
                   IsError(ret.log[i][3]) \/ IsQuote(ret.log[i][3])

\* requests.get raises for the first provider and for Alpha Vantage
NoExceptionEscapesWitness ==
    /\ ret.op \in {"get_stock_data", "get_stock_data_fmp"}
    /\ Cardinality(Requests) = 2
    /\ \A i \in Requests : ret.log[i][4].exc
    /\ ~ret.raised
    /\ ret.result = Error("alphavantage: error")

(***************************************************************************)
(* get_weather_data.  A city is typed letter by letter, as a symbol is.    *)
(***************************************************************************)
\* "part in text"
Contains(text, part) ==
    \E i \in 0..(Len(text) - Len(part)) :
        SubSeq(text, i + 1, i + Len(part)) = part

\* the queries tried for a city, in the order they are tried
city_variations(city) ==
    LET name == Join(city)
        city_lower == StrLower(city)
    IN  <<name, name \o ",Argentina", name \o ",AR">>
        \o (IF \/ Contains(city_lower, <<"c", "o", "r", "d", "o", "b", "a">>)
               \/ Contains(city_lower, <<"c", "ó", "r", "d", "o", "b", "a">>)
            THEN <<"Córdoba,Argentina", "Cordoba,Argentina", "Córdoba,AR",
                   "Cordoba,AR">>
            ELSE IF \/ Contains(city_lower, <<"b", "u", "e", "n", "o", "s", " ",
                                              "a", "i", "r", "e", "s">>)
                    \/ Contains(city_lower, <<"b", "s", "a", "s">>)
            THEN <<"Buenos Aires,Argentina", "Ciudad de Buenos Aires,Argentina",
                   "CABA,Argentina">>
            ELSE IF Contains(city_lower, <<"m", "e", "n", "d", "o", "z", "a">>)
            THEN <<"Mendoza,Argentina">>
            ELSE <<>>)

\* current_data['location'], current_data['current'] and their fields exist
HasWeather(response) ==
    /\ response.kind = "dict"
    /\ {"location", "current"} \subseteq DOMAIN response.data
    /\ {"name", "country"} \subseteq DOMAIN response.data.location
    /\ {"temp_c", "feelslike_c", "humidity", "condition", "wind_kph", "vis_km"}
           \subseteq DOMAIN response.data.current

\* f"{hour_index:02d}:00"
HourText(hour_index) ==
    (IF hour_index < 10 THEN "0" ELSE "") \o ToString(hour_index) \o ":00"

\* the next 6 hours of the forecast answer; nothing when the request or the
\* decoding of its answer fails
Forecast(w, response) ==
    IF \/ response.exc \/ response.status # 200 \/ response.kind # "dict"
       \/ "forecast" \notin DOMAIN response.data
    THEN <<>>
    ELSE IF "forecastday" \notin DOMAIN response.data.forecast
    THEN <<>>
    ELSE LET hours == response.data.forecast.forecastday[1].hour
             current_hour == (w.now \div 3600) % 24
             hour_index(i) == (current_hour + i + 1) % 24
             shown == SelectSeq([i \in 1..6 |-> hour_index(i - 1)],
                                LAMBDA h : h < Len(hours))
         IN  [k \in DOMAIN shown |->
                 [time |-> HourText(shown[k]),
                  temperature |-> hours[shown[k] + 1].temp_c,
                  description |-> hours[shown[k] + 1].condition.text,
                  icon |-> hours[shown[k] + 1].condition.icon,
                  rain_chance |-> hours[shown[k] + 1].chance_of_rain]]

WeatherRecord(current_data, forecast) ==
    [city |-> current_data.location.name,
     country |-> current_data.location.country,
     temperature |-> current_data.current.temp_c,
     feels_like |-> current_data.current.feelslike_c,
     humidity |-> current_data.current.humidity,
     description |-> current_data.current.condition.text,
     icon |-> current_data.current.condition.icon,
     wind_speed |-> (current_data.current.wind_kph * 10) \div 36,
     visibility |-> current_data.current.vis_km,
     forecast |-> forecast]

\* one turn of the loop, for a configured key: raised stands for "continue"
weather_attempt(w, cache_key, city_variation) ==
    Only({IF got.response.exc \/ got.response.status # 200
             \/ ~HasWeather(got.response)
          THEN Raise(got.w, {"continue"})
          ELSE Only({Only({Return(SimpleCache_set(forecast.w, cache_key,
                                                  weather_data),
                                  weather_data) :
                           weather_data \in
                               {WeatherRecord(got.response.data,
                                              Forecast(forecast.w,
                                                       forecast.response))}}) :
                     forecast \in
                         {requests_get(got.w, "weatherapi",
                                       [endpoint |-> "forecast.json",
                                        q |-> city_variation])}}) :
          got \in {requests_get(w, "weatherapi",
                                [endpoint |-> "current.json",
                                 q |-> city_variation])}})

\* the loop that gives up at the first query that fails
weather_loop_once(w, city, cache_key, variations) ==
    IF variations = <<>>
    THEN Return(w, Error("weather: city not found"))
    ELSE IF DictGet(CONFIG, "WEATHER_API_KEY", None) = None
    THEN Return(w, Error("weather: api not configured"))
    ELSE Only({IF tried.raised
               THEN Return(tried.w, Error("weather: city not found"))
               ELSE tried :
               tried \in {weather_attempt(w, cache_key, Head(variations))}})

\* for attempt, city_variation in enumerate(city_variations)
RECURSIVE weather_loop(_, _, _, _)
weather_loop(w, city, cache_key, variations) ==
    IF variations = <<>>
    THEN Return(w, Error("weather: city not found"))
    ELSE IF DictGet(CONFIG, "WEATHER_API_KEY", None) = None
    THEN Return(w, Error("weather: api not configured"))
    ELSE Only({IF tried.raised
               THEN weather_loop(tried.w, city, cache_key, Tail(variations))
               ELSE tried :
               tried \in {weather_attempt(w, cache_key, Head(variations))}})

weather_key(city) == "weather_" \o Join(StrLower(city))

get_weather_data(w, city) ==
    Only({Returned("get_weather_data", outcome) :
          outcome \in
              {IF Truthy(cached_data.value)
               THEN Return(cached_data.w, cached_data.value[1])
               ELSE weather_loop(wait_for_rate_limit(cached_data.w,
                                                     "weatherapi", 0),
                                 city, weather_key(city), city_variations(city)) :
               cached_data \in {SimpleCache_get(w, weather_key(city))}}})

MaxWeatherCalls == 2

Cities ==
    {<<"C", "o", "r", "d", "o", "b", "a">>, <<"S", "a", "l", "t", "a">>,
     <<"m", "e", "n", "d", "o", "z", "a">>}

WeatherConfigs ==
    {[WEATHER_API_KEY |-> None] @@ NoConfig,
     [WEATHER_API_KEY |-> "kw"] @@ NoConfig}

NotFound == Response(400, "dict", [error |-> 0], {}, {})

CurrentBody ==
    [location |-> [name |-> "Cordoba", country |-> "Argentina"],
     current |-> [temp_c |-> 20, feelslike_c |-> 19, humidity |-> 50,
                  condition |-> [text |-> "Soleado", icon |-> "113.png"],
                  wind_kph |-> 36, vis_km |-> 10]]

ForecastBody ==
    [forecast |->
        [forecastday |->
            <<[hour |-> [h \in 1..24 |->
                            [temp_c |-> 20,
                             condition |-> [text |-> "Soleado",
                                            icon |-> "113.png"],
                             chance_of_rain |-> 0]]]>>]]

\* the answers to the requests of one call, in the order of the requests
WeatherAnswers ==
    {<<>>,
     <<NotFound>>,
     <<Ok(CurrentBody)>>,
     <<Ok(CurrentBody), Ok(ForecastBody)>>,
     <<NotFound, Ok(CurrentBody), Ok(ForecastBody)>>,
     <<NotFound, Timeout, Ok(CurrentBody)>>,
     <<Ok(ForecastBody)>>,
     <<Ok(ForecastBody), Ok(CurrentBody), Ok(ForecastBody)>>}

\* one call of get_weather_data(city)
GetWeatherData(city, answers) ==
    \E outcome \in {get_weather_data(World([weatherapi |-> answers]), city)} :
        /\ Commit(outcome.w)
        /\ ret' = Call("get_weather_data", city, outcome)
                      @@ [answers |-> answers]
        /\ UNCHANGED <<icache, max_size, evictions, CONFIG, threads>>

InitWeather ==
    /\ now = 0
    /\ icache = <<>>
    /\ max_size = 1000
    /\ evictions = 0
    /\ cache = EmptyDict
    /\ last_request_time = EmptyDict
    /\ rate_limit_backoff = EmptyDict
    /\ threads = [t \in Threads |-> Idle]
    /\ CONFIG \in WeatherConfigs
    /\ ret = [op |-> "none", n |-> 0]

NextWeather ==
    \/ \E city \in Cities, answers \in WeatherAnswers :
          ret.n < MaxWeatherCalls /\ GetWeatherData(city, answers)
    \/ ret.n > 0 /\ now < cache_duration /\ Later

SpecWeather == InitWeather /\ [][NextWeather]_vars

(***************************************************************************)
(* Worker threads.  WebhookHandler.do_POST starts one thread per update;   *)
(* the threads share the SimpleCache object, whose methods take no lock,   *)
(* so a step of a thread is one statement of the method it is in.  A       *)
(* thread that called time.sleep goes on when the clock has reached wake.  *)
(***************************************************************************)
At(t, pc) == threads[t].pc = pc

Goto(t, state) == threads' = [threads EXCEPT ![t] = state]

\* wait_for_rate_limit, line 42: now = time.time()
WaitNow(t, api_name) ==
    /\ At(t, "idle")
    /\ Goto(t, [Idle EXCEPT !.pc = "backoff", !.arg = api_name, !.t0 = now])
    /\ UNCHANGED <<now, icache, max_size, evictions, cache, last_request_time,
                   rate_limit_backoff, CONFIG, ret>>

\* wait_for_rate_limit, lines 45-50: the backoff test and its sleep
WaitBackoff(t) ==
    /\ At(t, "backoff")
    /\ LET api_name == threads[t].arg
           active == /\ api_name \in DOMAIN rate_limit_backoff
                     /\ threads[t].t0 < rate_limit_backoff[api_name]
       IN  Goto(t, [threads[t] EXCEPT
                       !.pc = "interval",
                       !.wake = IF active
                                THEN now + (rate_limit_backoff[api_name]
                                               - threads[t].t0)
                                ELSE now])
    /\ UNCHANGED <<now, icache, max_size, evictions, cache, last_request_time,
                   rate_limit_backoff, CONFIG, ret>>

\* wait_for_rate_limit, lines 53-58: the interval test and its sleep
WaitInterval(t) ==
    /\ At(t, "interval")
    /\ now >= threads[t].wake
    /\ LET api_name == threads[t].arg
           too_soon == /\ api_name \in DOMAIN last_request_time
                       /\ threads[t].t0 - last_request_time[api_name]
                              < min_request_interval
       IN  Goto(t, [threads[t] EXCEPT
                       !.pc = "record",
                       !.wake = IF too_soon
                                THEN now + (min_request_interval
                                               - (threads[t].t0
                                                    - last_request_time[api_name]))
                                ELSE now])
    /\ UNCHANGED <<now, icache, max_size, evictions, cache, last_request_time,
                   rate_limit_backoff, CONFIG, ret>>

\* wait_for_rate_limit, line 60: the request time is recorded and the caller
\* goes on to the provider
WaitRecord(t) ==
    /\ At(t, "record")
    /\ now >= threads[t].wake
    /\ LET api_name == threads[t].arg
       IN  /\ last_request_time' = DictSet(last_request_time, api_name, now)
           /\ ret' = [op |-> "wait_for_rate_limit", thread |-> t,
                      api_name |-> api_name, start |-> threads[t].t0,
                      returned |-> now, recorded |-> now,
                      last |-> IF api_name \in DOMAIN last_request_time
                               THEN <<last_request_time[api_name]>> ELSE <<>>]
    /\ Goto(t, Idle)
    /\ UNCHANGED <<now, icache, max_size, evictions, cache, rate_limit_backoff,
                   CONFIG>>

\* the record of a call of SimpleCache.get that ended: value is <<data>>, or
\* <<>> for None; raised tells that the call ended with KeyError
Got(t, raised, value) ==
    [op |-> "SimpleCache.get", thread |-> t, key |-> threads[t].arg,
     raised |-> raised, value |-> value]

\* SimpleCache.get, line 29: if key in self.cache
GetContains(t, key) ==
    /\ At(t, "idle")
    /\ IF key \in DOMAIN cache
       THEN /\ Goto(t, [Idle EXCEPT !.pc = "load", !.arg = key])
            /\ UNCHANGED ret
       ELSE /\ ret' = [op |-> "SimpleCache.get", thread |-> t, key |-> key,
                       raised |-> FALSE, value |-> <<>>]
            /\ UNCHANGED threads
    /\ UNCHANGED <<now, icache, max_size, evictions, cache, last_request_time,
                   rate_limit_backoff, CONFIG>>

\* SimpleCache.get, line 30: data, timestamp = self.cache[key]
GetLoad(t) ==
    /\ At(t, "load")
    /\ IF threads[t].arg \in DOMAIN cache
       THEN /\ Goto(t, [threads[t] EXCEPT !.pc = "fresh",
                                          !.entry = <<cache[threads[t].arg]>>])
            /\ UNCHANGED ret
       ELSE /\ ret' = Got(t, TRUE, <<>>)
            /\ Goto(t, Idle)
    /\ UNCHANGED <<now, icache, max_size, evictions, cache, last_request_time,
                   rate_limit_backoff, CONFIG>>

\* SimpleCache.get, lines 31-32: the age test, and return data
GetFresh(t) ==
    /\ At(t, "fresh")
    /\ IF now - threads[t].entry[1].timestamp < cache_duration
       THEN /\ ret' = Got(t, FALSE, <<threads[t].entry[1].data>>)
            /\ Goto(t, Idle)
       ELSE /\ Goto(t, [threads[t] EXCEPT !.pc = "del"])
            /\ UNCHANGED ret
    /\ UNCHANGED <<now, icache, max_size, evictions, cache, last_request_time,
                   rate_limit_backoff, CONFIG>>

\* SimpleCache.get, lines 33-35: del self.cache[key], and return None
GetDel(t) ==
    /\ At(t, "del")
    /\ IF threads[t].arg \in DOMAIN cache
       THEN /\ cache' = DictDel(cache, threads[t].arg)
            /\ ret' = Got(t, FALSE, <<>>)
       ELSE /\ ret' = Got(t, TRUE, <<>>)
            /\ UNCHANGED cache
    /\ Goto(t, Idle)
    /\ UNCHANGED <<now, icache, max_size, evictions, last_request_time,
                   rate_limit_backoff, CONFIG>>

\* SimpleCache.set, line 38
Set(t, key, value) ==
    /\ At(t, "idle")
    /\ cache' = DictSet(cache, key, [data |-> value, timestamp |-> now])
    /\ ret' = [op |-> "SimpleCache.set", thread |-> t, key |-> key,
               value |-> value]
    /\ UNCHANGED <<now, icache, max_size, evictions, last_request_time,
                   rate_limit_backoff, CONFIG, threads>>

\* time passes
Pass(seconds) ==
    /\ now' = now + seconds
    /\ UNCHANGED <<icache, max_size, evictions, cache, last_request_time,
                   rate_limit_backoff, CONFIG, threads, ret>>

MaxWorkerTime == 16

WorkerApis == {"weatherapi"}
WorkerKeys == {"weather_cordoba"}
WorkerValues == {[temperature |-> 20], [temperature |-> 25]}

NextWorkers ==
    \/ \E t \in Threads, api_name \in WorkerApis : WaitNow(t, api_name)
    \/ \E t \in Threads : WaitBackoff(t)
    \/ \E t \in Threads : WaitInterval(t)
    \/ \E t \in Threads : WaitRecord(t)
    \/ \E t \in Threads, key \in WorkerKeys : GetContains(t, key)
    \/ \E t \in Threads : GetLoad(t)
    \/ \E t \in Threads : GetFresh(t)
    \/ \E t \in Threads : GetDel(t)
    \/ \E t \in Threads, key \in WorkerKeys, value \in WorkerValues :
          Set(t, key, value)
    \/ \E api_name \in WorkerApis :
          now < MaxWorkerTime /\ TriggerBackoff(api_name, min_request_interval)
    \/ \E seconds \in {min_request_interval, cache_duration} :
          now < MaxWorkerTime /\ Pass(seconds)

SpecWorkers == InitRate /\ [][NextWorkers]_vars

(***************************************************************************)
(* Quotes asked under several names of one company                         *)
(***************************************************************************)
MaxAliasCalls == 3

AliasTwelve ==
    {Timeout,
     Ok([close |-> 100, previous_close |-> 90, high |-> 110, low |-> 80,
         open |-> 95, volume |-> 5000])}

AliasFmp == {Timeout, Ok([price |-> 100])}

AliasAlpha == {<<>>, <<Ok("Global Quote" :> GlobalQuote)>>}

NextAlias ==
    \/ \E symbol \in AliasSymbols, twelve \in AliasTwelve, alpha \in AliasAlpha :
          ret.n < MaxAliasCalls /\ GetStockData(symbol, twelve, alpha)
    \/ \E symbol \in AliasSymbols, fmp \in AliasFmp, alpha \in AliasAlpha :
          ret.n < MaxAliasCalls /\ GetStockDataFmp(symbol, fmp, alpha)
    \/ ret.n > 0 /\ now < cache_duration /\ Later

SpecAlias == Init /\ [][NextAlias]_vars

(***************************************************************************)
(* The adapters called one by one: each call is one call of                *)
(* get_stock_data_twelve, get_stock_data_fmp, get_stock_data_alphavantage  *)
(* or get_weather_data, with the answers the providers give to it.         *)
(***************************************************************************)
\* one call of get_stock_data_twelve(symbol)
GetStockDataTwelve(symbol, twelve, alpha) ==
    \E outcome \in {get_stock_data_twelve(
                        World([twelvedata |-> <<twelve>>, alphavantage |-> alpha]),
                        symbol)} :
        /\ Commit(outcome.w)
        /\ ret' = Call("get_stock_data_twelve", symbol, outcome)
        /\ UNCHANGED <<threads, icache, max_size, evictions, CONFIG>>

\* one call of get_stock_data_alphavantage(symbol)
GetStockDataAlphavantage(symbol, alpha) ==
    \E outcome \in {get_stock_data_alphavantage(
                        World([alphavantage |-> alpha]), symbol)} :
        /\ Commit(outcome.w)
        /\ ret' = Call("get_stock_data_alphavantage", symbol, outcome)
                      @@ [answers |-> alpha]
        /\ UNCHANGED <<threads, icache, max_size, evictions, CONFIG>>

AdapterConfigs ==
    {[WEATHER_API_KEY |-> None] @@ NoConfig,
     [TWELVE_API_KEY |-> "k12", ALPHA_VANTAGE_API_KEY |-> "kav",
      FMP_API_KEY |-> "kfmp", WEATHER_API_KEY |-> "kw"]}

\* the answers of Alpha Vantage to the requests of one direct call: none, a
\* full quote, an empty quote object, a quote without a price, and no quote
\* object followed by a daily series or by nothing
AdapterAlpha ==
    {<<>>,
     <<Ok("Global Quote" :> GlobalQuote)>>,
     <<Ok("Global Quote" :> EmptyDict)>>,
     <<Ok("Global Quote" :> ("01. symbol" :> 0))>>,
     <<Ok(EmptyDict), Ok("Time Series (Daily)" :> <<Day(90, 95), Day(95, 100)>>)>>,
     <<Ok(EmptyDict), Ok(EmptyDict)>>}

AdapterCities == {<<"C", "o", "r", "d", "o", "b", "a">>}

AdapterAnswers == {<<>>, <<NotFound>>, <<Ok(CurrentBody), Ok(ForecastBody)>>}

InitAdapters ==
    /\ now = 0
    /\ icache = <<>>
    /\ max_size = 1000
    /\ evictions = 0
    /\ cache = EmptyDict
    /\ last_request_time = EmptyDict
    /\ rate_limit_backoff = EmptyDict
    /\ threads = [t \in Threads |-> Idle]
    /\ CONFIG \in AdapterConfigs
    /\ ret = [op |-> "none", n |-> 0]

NextAdapters ==
    \/ \E symbol \in FetchSymbols, twelve \in AliasTwelve, alpha \in AliasAlpha :
          ret.n < MaxAliasCalls /\ GetStockDataTwelve(symbol, twelve, alpha)
    \/ \E symbol \in FetchSymbols, fmp \in AliasFmp, alpha \in AliasAlpha :
          ret.n < MaxAliasCalls /\ GetStockDataFmp(symbol, fmp, alpha)
    \/ \E symbol \in FetchSymbols, alpha \in AdapterAlpha :
          ret.n < MaxAliasCalls /\ GetStockDataAlphavantage(symbol, alpha)
    \/ \E city \in AdapterCities, answers \in AdapterAnswers :
          ret.n < MaxAliasCalls /\ GetWeatherData(city, answers)
    \/ ret.n > 0 /\ now < cache_duration /\ Later

SpecAdapters == InitAdapters /\ [][NextAdapters]_vars

\* the events of the last call
Events(kind) == {i \in DOMAIN ret.log : ret.log[i][1] = kind}

\* the values returned by the adapters and by get_stock_data in the last call
Returns == {ret.log[i][3] : i \in Events("return")}

(***************************************************************************)
(* C14: every HTTP request to a provider is preceded by its own            *)
(* wait_for_rate_limit call for that provider: a wait for the provider     *)
(* comes before the first request and between any two requests to it.      *)
(***************************************************************************)
WaitBeforeEveryRequest ==
    ret.op # "none" =>
        \A j \in Events("http") :
            \E k \in Events("wait") :
                /\ k < j
                /\ ret.log[k][2] = ret.log[j][2]
                /\ \A i \in Events("http") :
                       (i < j /\ ret.log[i][2] = ret.log[j][2]) => i < k

(***************************************************************************)
(* C15: when a provider signals that its rate limit is exhausted, here by  *)
(* answering HTTP 429, the backoff instant of that provider is set to a    *)
(* future instant before the adapter returns or calls the fallback         *)
(* adapter.                                                                *)
(***************************************************************************)
BackoffOnRateLimit ==
    ret.op # "none" =>
        \A i \in Events("http") :
            ret.log[i][4].status = 429 =>
                \E k \in Events("backoff") :
                    /\ k > i
                    /\ \A r \in Events("return") : ~(i < r /\ r < k)
                    /\ \A r \in Events("wait") : ~(i < r /\ r < k)
                    /\ ret.log[k][2] = ret.log[i][2]
                    /\ ret.log[k][3] > ret.start

(***************************************************************************)
(* C16: every record that is not an error, returned by get_stock_data or   *)
(* by an adapter, has current_price present and greater than 0.            *)
(***************************************************************************)
PositivePrice ==
    ret.op # "none" =>
        \A value \in Returns :
            ~IsError(value) =>
                /\ "current_price" \in DOMAIN value
                /\ value.current_price > 0

\* the keys of the quote record
QuoteFields ==
    {"symbol", "name", "current_price", "currency", "daily_change",
     "daily_change_percent", "day_high", "day_low", "open_price",
     "previous_close", "volume", "sector", "industry"}

(***************************************************************************)
(* C17: every record that is not an error, returned by an adapter, has all *)
(* the fields of the quote record, day_high, day_low, open_price and       *)
(* previous_close among them.                                              *)
(***************************************************************************)
AllQuoteFields ==
    ret.op # "none" =>
        \A value \in Returns :
            ~IsError(value) => QuoteFields \subseteq DOMAIN value

\* the providers the last call sent requests to
Asked == {ret.log[i][2] : i \in Events("http")}

(***************************************************************************)
(* C19: the cache key of a quote is the normalized symbol: after a call    *)
(* that got a quote from one provider, the next call of the same function  *)
(* within the cache duration, for an input that normalizes to the same     *)
(* symbol, sends no request.                                               *)
(***************************************************************************)
CanonicalCacheKey ==
    [][(/\ ret.op # "none"
        /\ ~IsError(ret.result)
        /\ Cardinality(Asked) = 1
        /\ \A i \in Events("http") : ret.log[i][4].status = 200
        /\ ret'.n = ret.n + 1
        /\ ret'.op = ret.op
        /\ ret'.start - ret.start < cache_duration
        /\ normalized[ret'.symbol] = normalized[ret.symbol])
           => \A i \in DOMAIN ret'.log : ret'.log[i][1] # "http"]_vars

(***************************************************************************)
(* C12: with workers calling wait_for_rate_limit(p) at the same time, two  *)
(* workers never both pass the elapsed-time test and go on to the provider *)
(* less than min_request_interval apart: a recorded request time is at     *)
(* least min_request_interval after the one it replaces.                   *)
(***************************************************************************)
WorkersKeepInterval ==
    (ret.op = "wait_for_rate_limit" /\ ret.last # <<>>) =>
        ret.recorded - ret.last[1] >= min_request_interval

(***************************************************************************)
(* C13: with workers calling get and set on the cache at the same time,    *)
(* every get returns a stored value or None and never fails.               *)
(***************************************************************************)
GetNeverFails ==
    ret.op = "SimpleCache.get" =>
        /\ ~ret.raised
        /\ ret.value = <<>> \/ ret.value[1] \in WorkerValues

\* the current.json requests of the last call: one for each query tried
Tried == {i \in Events("http") : ret.log[i][3].endpoint = "current.json"}

\* the queries are tried in the order of the list, each at most once
TriedInOrder ==
    \A i \in Tried :
        LET turn == Cardinality({j \in Tried : j <= i})
        IN  /\ turn <= Len(city_variations(ret.symbol))
            /\ ret.log[i][3].q = city_variations(ret.symbol)[turn]

\* the answer to request i of the last call: an exhausted queue is a timeout
Answer(i) ==
    LET k == Cardinality({j \in Events("http") : j <= i})
    IN  IF k <= Len(ret.answers) THEN ret.answers[k] ELSE Timeout

\* the call returned a record, stored it, and tried no query after request i
ReturnedAt(i) ==
    /\ ~IsError(ret.result)
    /\ \A j \in Tried : j <= i
    /\ weather_key(ret.symbol) \in DOMAIN cache
    /\ cache[weather_key(ret.symbol)].data = ret.result

(***************************************************************************)
(* C18, as stated: get_weather_data tries its queries in order, returns    *)
(* and stores the record of the first query answered with HTTP 200 and     *)
(* tries no later one, and returns an error only after every query has     *)
(* been tried.                                                             *)
(***************************************************************************)
FirstAnsweredCandidate ==
    ret.op = "get_weather_data" =>
        /\ TriedInOrder
        /\ \A i \in Tried : ret.log[i][4].status = 200 => ReturnedAt(i)
        /\ IsError(ret.result) =>
               Cardinality(Tried) = Len(city_variations(ret.symbol))

(***************************************************************************)
(* C18, amended: get_weather_data tries its queries in order (city,        *)
(* "city,Argentina", "city,AR", then the hardcoded ones), returns and      *)
(* stores the record of the first query answered with HTTP 200 and a body  *)
(* that has location and current, and tries no later one; with a key       *)
(* configured it returns an error only after every query has been tried,   *)
(* and with no key it returns an error without sending a request.          *)
(***************************************************************************)
FirstDecodedCandidate ==
    ret.op = "get_weather_data" =>
        /\ TriedInOrder
        /\ \A i \in Tried :
               (ret.log[i][4].status = 200 /\ HasWeather(Answer(i)))
                   => ReturnedAt(i)
        /\ IsError(ret.result) =>
               IF CONFIG.WEATHER_API_KEY = None
               THEN Events("http") = {}
               ELSE Cardinality(Tried) = Len(city_variations(ret.symbol))

\* "Cordoba" and "Cordoba,Argentina" fail, "Cordoba,AR" is answered
FirstDecodedCandidateWitness ==
    /\ ret.op = "get_weather_data"
    /\ ret.symbol = <<"C", "o", "r", "d", "o", "b", "a">>
    /\ Cardinality(Tried) = 3
    /\ \E i \in Tried : ret.log[i][3].q = "Cordoba,AR" /\ ReturnedAt(i)
    /\ ret.result.city = "Cordoba"

\* the key under which each adapter caches the record of a symbol or city
AdapterKey(op, symbol) ==
    CASE op = "get_stock_data_twelve" -> "stock_twelve_" \o upper[symbol]
      [] op = "get_stock_data_fmp" -> "stock_fmp_" \o upper[symbol]
      [] op = "get_stock_data_alphavantage" -> "stock_av_" \o upper[symbol]
      [] op = "get_weather_data" -> weather_key(symbol)

\* the entry under key is there and younger than the cache duration
Unexpired(key) ==
    key \in DOMAIN cache /\ now - cache[key].timestamp < cache_duration

\* C24: a call of an adapter (Twelve Data, FMP, Alpha Vantage, weather) that
\* finds an unexpired entry under its own cache key returns the cached
\* record at once: the only event of the call is its return, with no
\* rate-limiter wait and no upstream request, and the last request times,
\* the backoff windows, the cache and the clock are left as they were.
CachedReturnsAtOnce ==
    [][(ret' # ret /\ ret'.op # "none"
            /\ Unexpired(AdapterKey(ret'.op, ret'.symbol))) =>
          /\ ~ret'.raised
          /\ ret'.result = cache[AdapterKey(ret'.op, ret'.symbol)].data
          /\ ret'.log = <<<<"return", ret'.op, ret'.result>>>>
          /\ last_request_time' = last_request_time
          /\ rate_limit_backoff' = rate_limit_backoff
          /\ cache' = cache
          /\ now' = now]_vars

\* a third call, of the Alpha Vantage adapter, answered from the cache after
\* the clock has moved by the cache duration
CachedReturnsAtOnceWitness ==
    /\ ret.op = "get_stock_data_alphavantage"
    /\ ret.n = 3
    /\ ret.log = <<<<"return", ret.op, ret.result>>>>
    /\ Unexpired(AdapterKey(ret.op, ret.symbol))
    /\ ret.result = cache[AdapterKey(ret.op, ret.symbol)].data
    /\ now >= cache_duration
    /\ "alphavantage" \in DOMAIN last_request_time

\* the requests of the last call sent to provider
RequestsTo(provider) == {i \in Events("http") : ret.log[i][2] = provider}

\* C25: when no Twelve Data key is configured, every request that
\* get_stock_data_twelve sends to Twelve Data carries the public "demo"
\* credential as its API key.
DemoCredential ==
    (ret.op = "get_stock_data_twelve" /\ CONFIG.TWELVE_API_KEY = None) =>
        \A i \in RequestsTo("twelvedata") : ret.log[i][3].apikey = "demo"

\* the input of the last call denotes a crypto asset: normalize_symbol maps
\* it to a pair quoted in USD
IsCryptoInput == endswith(normalized[ret.symbol], "-USD")

\* C26: in the Twelve Data and FMP adapters every input that denotes a
\* supported crypto asset is sent in the crypto form of the request, the
\* asset followed by "/USD" for Twelve Data and by "USD" for FMP, and every
\* equity input is sent as its ticker.
CryptoFormRouting ==
    ret.op \in {"get_stock_data_twelve", "get_stock_data_fmp"} =>
        /\ \A i \in RequestsTo("twelvedata") :
              ret.log[i][3].symbol =
                  IF IsCryptoInput
                  THEN removesuffix(normalized[ret.symbol], "-USD") \o "/USD"
                  ELSE normalized[ret.symbol]
        /\ \A i \in RequestsTo("fmp") :
              ret.log[i][3].url =
                  "/api/v4/price/" \o
                      (IF IsCryptoInput
                       THEN removesuffix(normalized[ret.symbol], "-USD") \o "USD"
                       ELSE normalized[ret.symbol])

\* the answer of the real-time quote endpoint carries no result: no quote
\* object, an empty quote object, or a quote without a price
NoQuote(response) ==
    /\ ~response.exc
    /\ response.kind = "dict"
    /\ {"Error Message", "Note", "Information"} \cap DOMAIN response.data = {}
    /\ \/ "Global Quote" \notin DOMAIN response.data
       \/ "05. price" \notin DOMAIN response.data["Global Quote"]

\* C27: in the Alpha Vantage adapter, whenever the real-time quote endpoint
\* yields no result for an equity symbol (no quote object, an empty quote
\* object, or a quote without a price), the daily time-series endpoint is
\* requested before the adapter returns an error.
DailyBeforeError ==
    (/\ ret.op = "get_stock_data_alphavantage"
     /\ ~IsCryptoInput
     /\ RequestsTo("alphavantage") # {}
     /\ ret.answers # <<>>
     /\ NoQuote(ret.answers[1])
     /\ IsError(ret.result)) =>
        \E i \in RequestsTo("alphavantage") :
            ret.log[i][3].function = "TIME_SERIES_DAILY"

(***************************************************************************)
(* Calls step by step.  A thread that runs get_stock_data,                 *)
(* get_stock_data_fmp or get_weather_data holds a stack of frames, one for *)
(* each function entered and not yet left, each with its position.  A      *)
(* step is a cache lookup, the end of a rate-limiter sleep, the completion *)
(* or time-out of an HTTP request, a call of another function or a return. *)
(***************************************************************************)
MaxStarts == 2

Adapters ==
    {"get_stock_data_twelve", "get_stock_data_fmp",
     "get_stock_data_alphavantage", "get_weather_data"}

\* the provider whose rate limit an adapter waits for
ApiOf(fn) ==
    CASE fn = "get_stock_data_twelve" -> "twelvedata"
      [] fn = "get_stock_data_fmp" -> "fmp"
      [] fn = "get_stock_data_alphavantage" -> "alphavantage"
      [] fn = "get_weather_data" -> "weatherapi"

\* what a request gets: a complete record, a record whose change and volume
\* are zero, an answer that lacks the object asked for, a rate-limit
\* answer, and a time-out or any other failure
StepAnswers == {"quote", "flat", "absent", "limited", "fail"}

StepRecord(arg, answer) ==
    [symbol |-> arg, current_price |-> 100,
     daily_change |-> IF answer = "flat" THEN 0 ELSE 10,
     volume |-> IF answer = "flat" THEN 0 ELSE 5000]

Frame(fn, pc) == [fn |-> fn, pc |-> pc]

Top(t) == threads[t].stack[Len(threads[t].stack)]

InFrame(t, fn, pc) ==
    /\ threads[t].pc = "run"
    /\ Top(t).fn = fn
    /\ Top(t).pc = pc

\* the thread with its top frame at position pc
Moved(t, pc) ==
    [threads[t] EXCEPT !.stack[Len(threads[t].stack)].pc = pc]

\* the thread after its top frame, left at position pc, has called fn
Pushed(t, pc, fn) ==
    [threads[t] EXCEPT !.stack = Append(Moved(t, pc).stack, Frame(fn, "get"))]

\* the thread about to return value from its top frame; the value of the
\* last return is kept as <<value>>, and <<>> before any return
Leaving(t, value) == [Moved(t, "ret") EXCEPT !.value = <<value>>]

\* a loop that tries the same variation again
Retry(variations) == variations

\* continue: the loop goes on with the next variation
Continue(variations) == Tail(variations)

\* a call of get_stock_data, get_stock_data_fmp or get_weather_data begins
Enter(t, fn, arg) ==
    /\ At(t, "idle")
    /\ ret.n < MaxStarts
    /\ Goto(t, [pc |-> "run",
                stack |-> <<Frame(fn, IF fn = "get_stock_data" THEN "start"
                                      ELSE "get")>>,
                arg |-> arg, value |-> <<>>, entry |-> <<>>])
    /\ ret' = [op |-> "enter", n |-> ret.n + 1, fn |-> fn, arg |-> arg]
    /\ UNCHANGED <<now, icache, max_size, evictions, cache, last_request_time,
                   rate_limit_backoff, CONFIG>>

\* get_stock_data: the choice of the first provider
Dispatch(t) ==
    /\ InFrame(t, "get_stock_data", "start")
    /\ Goto(t, IF HasKey("TWELVE_API_KEY") \/ ~HasKey("ALPHA_VANTAGE_API_KEY")
               THEN Pushed(t, "twelve_called", "get_stock_data_twelve")
               ELSE Pushed(t, "alpha_called", "get_stock_data_alphavantage"))
    /\ UNCHANGED <<now, icache, max_size, evictions, cache, last_request_time,
                   rate_limit_backoff, CONFIG, ret>>

\* an adapter: cached_data = cache.get(cache_key); if cached_data: return
CacheGet(t) ==
    \E fn \in Adapters :
        /\ InFrame(t, fn, "get")
        /\ \E got \in {SimpleCache_get(World(NoUpstream),
                                       AdapterKey(fn, threads[t].arg))} :
              /\ cache' = got.w.cache
              /\ Goto(t, IF Truthy(got.value) THEN Leaving(t, got.value[1])
                         ELSE Moved(t, "wait"))
        /\ UNCHANGED <<now, icache, max_size, evictions, last_request_time,
                       rate_limit_backoff, CONFIG, ret>>

\* an adapter: cache.wait_for_rate_limit(api_name), until its sleeps end
RateLimitWait(t) ==
    \E fn \in Adapters :
        /\ InFrame(t, fn, "wait")
        /\ Commit(wait_for_rate_limit(World(NoUpstream), ApiOf(fn), 0))
        /\ Goto(t, Moved(t, "try"))
        /\ UNCHANGED <<icache, max_size, evictions, CONFIG, ret>>

\* an adapter: the start of its try block, up to the first request
Try(t) ==
    /\ \/ /\ InFrame(t, "get_stock_data_twelve", "try")
          /\ Goto(t, Moved(t, "http"))
       \/ /\ InFrame(t, "get_stock_data_fmp", "try")
          /\ Goto(t, IF HasKey("FMP_API_KEY") THEN Moved(t, "http")
                     ELSE Pushed(t, "delegated", "get_stock_data_alphavantage"))
       \/ /\ InFrame(t, "get_stock_data_alphavantage", "try")
          /\ Goto(t, IF HasKey("ALPHA_VANTAGE_API_KEY") THEN Moved(t, "http")
                     ELSE Leaving(t, Error("alphavantage: api key not configured")))
       \/ /\ InFrame(t, "get_weather_data", "try")
          /\ Goto(t, [Moved(t, "loop") EXCEPT
                          !.entry = city_variations(threads[t].arg)])
    /\ UNCHANGED <<now, icache, max_size, evictions, cache, last_request_time,
                   rate_limit_backoff, CONFIG, ret>>

\* get_weather_data: the head of the loop over the variations of the city
Loop(t) ==
    /\ InFrame(t, "get_weather_data", "loop")
    /\ Goto(t, IF threads[t].entry = <<>>
               THEN Leaving(t, Error("weather: city not found"))
               ELSE IF DictGet(CONFIG, "WEATHER_API_KEY", None) = None
               THEN Leaving(t, Error("weather: api not configured"))
               ELSE Moved(t, "http"))
    /\ UNCHANGED <<now, icache, max_size, evictions, cache, last_request_time,
                   rate_limit_backoff, CONFIG, ret>>

\* the first request of an adapter completes or times out
Http(t, answer) ==
    \E fn \in Adapters :
        /\ InFrame(t, fn, "http")
        /\ IF fn \in {"get_stock_data_twelve", "get_stock_data_fmp"}
           THEN IF answer \in {"quote", "flat"}
                THEN /\ cache' = SimpleCache_set(
                                     World(NoUpstream),
                                     AdapterKey(fn, threads[t].arg),
                                     StepRecord(threads[t].arg, answer)).cache
                     /\ Goto(t, Leaving(t, StepRecord(threads[t].arg, answer)))
                     /\ UNCHANGED rate_limit_backoff
                ELSE /\ Goto(t, Pushed(t, "delegated",
                                       "get_stock_data_alphavantage"))
                     /\ UNCHANGED <<cache, rate_limit_backoff>>
           ELSE IF fn = "get_stock_data_alphavantage"
           THEN IF answer \in {"quote", "flat"}
                THEN /\ cache' = SimpleCache_set(
                                     World(NoUpstream),
                                     AdapterKey(fn, threads[t].arg),
                                     StepRecord(threads[t].arg, answer)).cache
                     /\ Goto(t, Leaving(t, StepRecord(threads[t].arg, answer)))
                     /\ UNCHANGED rate_limit_backoff
                ELSE IF answer = "absent"
                THEN /\ Goto(t, Moved(t, "http2"))
                     /\ UNCHANGED <<cache, rate_limit_backoff>>
                ELSE IF answer = "limited"
                THEN /\ rate_limit_backoff' =
                            trigger_backoff(World(NoUpstream), "alphavantage",
                                            120).rate_limit_backoff
                     /\ Goto(t, Leaving(t, Error("alphavantage: rate limit")))
                     /\ UNCHANGED cache
                ELSE /\ Goto(t, Leaving(t, Error("alphavantage: error")))
                     /\ UNCHANGED <<cache, rate_limit_backoff>>
           ELSE IF answer \in {"quote", "flat"}
                THEN /\ Goto(t, Moved(t, "http2"))
                     /\ UNCHANGED <<cache, rate_limit_backoff>>
                ELSE /\ Goto(t, [Moved(t, "loop") EXCEPT
                                     !.entry = Continue(threads[t].entry)])
                     /\ UNCHANGED <<cache, rate_limit_backoff>>
        /\ UNCHANGED <<now, icache, max_size, evictions, last_request_time,
                       CONFIG, ret>>

\* the second request completes or times out: the daily series or the
\* exchange rate of Alpha Vantage, the forecast of the weather
Http2(t, answer) ==
    \E fn \in {"get_stock_data_alphavantage", "get_weather_data"} :
        /\ InFrame(t, fn, "http2")
        /\ IF fn = "get_weather_data" \/ answer \in {"quote", "flat"}
           THEN /\ cache' = SimpleCache_set(
                                World(NoUpstream),
                                AdapterKey(fn, threads[t].arg),
                                StepRecord(threads[t].arg, answer)).cache
                /\ Goto(t, Leaving(t, StepRecord(threads[t].arg, answer)))
           ELSE /\ Goto(t, Leaving(t, Error("alphavantage: error")))
                /\ UNCHANGED cache
        /\ UNCHANGED <<now, icache, max_size, evictions, last_request_time,
                       rate_limit_backoff, CONFIG, ret>>

\* return get_stock_data_alphavantage(symbol): the value of the function
\* called is the value of the caller
Delegated(t) ==
    \E fn \in Adapters :
        /\ InFrame(t, fn, "delegated")
        /\ Goto(t, Moved(t, "ret"))
        /\ UNCHANGED <<now, icache, max_size, evictions, cache,
                       last_request_time, rate_limit_backoff, CONFIG, ret>>

\* get_stock_data after get_stock_data_twelve has returned
AfterTwelve(t) ==
    /\ InFrame(t, "get_stock_data", "twelve_called")
    /\ Goto(t, IF HasKey("TWELVE_API_KEY")
               THEN IF /\ ~IsError(threads[t].value[1])
                       /\ threads[t].value[1].daily_change = 0
                       /\ threads[t].value[1].volume = 0
                       /\ HasKey("ALPHA_VANTAGE_API_KEY")
                    THEN Pushed(t, "alpha_called", "get_stock_data_alphavantage")
                    ELSE Moved(t, "ret")
               ELSE IF IsError(threads[t].value[1])
               THEN Leaving(t, Error("no financial API configured"))
               ELSE Moved(t, "ret"))
    /\ UNCHANGED <<now, icache, max_size, evictions, cache, last_request_time,
                   rate_limit_backoff, CONFIG, ret>>

\* get_stock_data after get_stock_data_alphavantage has returned
AfterAlpha(t) ==
    /\ InFrame(t, "get_stock_data", "alpha_called")
    /\ Goto(t, Moved(t, "ret"))
    /\ UNCHANGED <<now, icache, max_size, evictions, cache, last_request_time,
                   rate_limit_backoff, CONFIG, ret>>

\* a function returns: to its caller, or to the handler that made the call
Leave(t) ==
    \E fn \in Adapters \cup {"get_stock_data"} :
        /\ InFrame(t, fn, "ret")
        /\ IF Len(threads[t].stack) = 1
           THEN /\ Goto(t, Idle)
                /\ ret' = [op |-> fn, n |-> ret.n, arg |-> threads[t].arg,
                           result |-> threads[t].value[1]]
           ELSE /\ Goto(t, [threads[t] EXCEPT
                                !.stack = SubSeq(@, 1, Len(@) - 1)])
                /\ UNCHANGED ret
        /\ UNCHANGED <<now, icache, max_size, evictions, cache,
                       last_request_time, rate_limit_backoff, CONFIG>>

\* the next step of a call that has begun
Step(t) ==
    \/ Dispatch(t)
    \/ CacheGet(t)
    \/ RateLimitWait(t)
    \/ Try(t)
    \/ Loop(t)
    \/ \E answer \in StepAnswers : Http(t, answer)
    \/ \E answer \in StepAnswers : Http2(t, answer)
    \/ Delegated(t)
    \/ AfterTwelve(t)
    \/ AfterAlpha(t)
    \/ Leave(t)

StepSymbols == {<<"b", "t", "c">>}

\* the calls of one handler thread, one after the other: no step of a call
\* waits for another thread, SimpleCache has no lock
StepThreads == {"t1"}

NextSteps ==
    \/ \E t \in StepThreads, fn \in {"get_stock_data", "get_stock_data_fmp"},
          symbol \in StepSymbols : Enter(t, fn, symbol)
    \/ \E t \in StepThreads, city \in AdapterCities :
          Enter(t, "get_weather_data", city)
    \/ \E t \in StepThreads : Step(t)

SpecSteps == InitAdapters /\ [][NextSteps]_vars

\* a call that has begun goes on: the interpreter runs the thread, every
\* request completes or times out and every sleep ends
FairSteps == SpecSteps /\ \A t \in StepThreads : WF_vars(Step(t))

\* C28: every call of get_stock_data and of get_weather_data that has begun
\* eventually returns a value, given that each request completes or times
\* out and each rate-limiter sleep ends.
EveryCallReturns ==
    \A t \in StepThreads : (threads[t].pc = "run") ~> (threads[t].pc = "idle")

\* a second call, of get_weather_data, has returned its error after the
\* request of every variation of the city failed, and the thread is idle
EveryCallReturnsWitness ==
    /\ ret.op = "get_weather_data"
    /\ ret.n = 2
    /\ ret.result = Error("weather: city not found")
    /\ last_request_time["weatherapi"] > 0
    /\ \A t \in StepThreads : threads[t] = Idle

\* the cache keys the adapters look up in a call
KeysOf(call) ==
    IF call.op = "get_weather_data" THEN {weather_key(call.symbol)}
    ELSE {AdapterKey(fn, call.symbol) : fn \in Adapters \ {"get_weather_data"}}

\* the entries of the cache after a call that the call has added or replaced
Written == {k \in DOMAIN cache' : k \notin DOMAIN cache \/ cache'[k] # cache[k]}

\* every entry written is the record that an adapter of the call returned,
\* without the error tag, under the key of that adapter
WritesOnSuccess ==
    \A k \in Written :
        /\ ~IsError(cache'[k].data)
        /\ \E i \in DOMAIN ret'.log :
              /\ ret'.log[i][1] = "return"
              /\ ret'.log[i][2] \in Adapters
              /\ k = AdapterKey(ret'.log[i][2], ret'.symbol)
              /\ cache'[k].data = ret'.log[i][3]

\* C29 as stated: no value stored in the SimpleCache by the fetch functions
\* carries the error tag, the adapters and get_weather_data write only on a
\* parsed success and under their own key, and a call that returns an error
\* leaves the contents of the cache unchanged.
ErrorLeavesCache ==
    [][(ret' # ret /\ ret'.op # "none") =>
          /\ \A k \in DOMAIN cache' : ~IsError(cache'[k].data)
          /\ WritesOnSuccess
          /\ IsError(ret'.result) => cache' = cache]_vars

\* C29: no value stored in the SimpleCache by the fetch functions carries
\* the error tag, the adapters and get_weather_data write only on a parsed
\* success and under their own key, and a call that returns an error adds
\* and replaces no entry: all it may change is to delete the expired
\* entries under the keys it looked up.
ErrorWritesNothing ==
    [][(ret' # ret /\ ret'.op # "none") =>
          /\ \A k \in DOMAIN cache' : ~IsError(cache'[k].data)
          /\ WritesOnSuccess
          /\ \A k \in DOMAIN cache \ DOMAIN cache' :
                k \in KeysOf(ret') /\ ~Unexpired(k)
          /\ IsError(ret'.result) => Written = {}]_vars

\* a call that sent requests has returned an error, the entry under its key
\* is gone and the cache still holds a record stored earlier
ErrorWritesNothingWitness ==
    /\ ret.op = "get_stock_data_alphavantage"
    /\ IsError(ret.result)
    /\ RequestsTo("alphavantage") # {}
    /\ now >= cache_duration
    /\ KeysOf(ret) \cap DOMAIN cache = {}
    /\ cache # EmptyDict

\* the keys of the entries stored under namespace
KeysUnder(namespace) ==
    {_generate_key(namespace, query) : query \in Queries}

\* C30: clear(namespace) removes exactly the entries that were stored under
\* that namespace and leaves the entries of every other namespace as they
\* were; clear() with no namespace empties the store.
ClearNamespace ==
    [][(ret' # ret /\ ret'.op = "clear") =>
          IF ret'.namespace = None THEN icache' = <<>>
          ELSE icache' =
                   Without(icache, {i \in DOMAIN icache :
                                       icache[i].key \in KeysUnder(ret'.namespace)})]_vars

=============================================================================
